---- MODULE Spec2Model ----
(***************************************************************************)
(* Model of wt-pricing-algorithms: the rate plan selector, the modifier    *)
(* resolver, the daily price calculator, the stay matrix builder and the   *)
(* PriceComputer strategies.                                               *)
(*                                                                         *)
(* Conventions                                                             *)
(*  - A JS value that may be undefined is a sequence of length <= 1:       *)
(*    << >> is undefined, <<v>> is the value v.                            *)
(*  - A dayjs instant is an integer number of ticks; a day has TicksPerDay *)
(*    ticks and a date-only string ('2018-01-03') parses to midnight, a    *)
(*    multiple of TicksPerDay.  `new Date()` is any tick.                  *)
(*  - Money is counted in hundredths (currency.js keeps two decimals), so  *)
(*    a price of 60 is 6000 and a change of -2.5 is -250.  Prices and      *)
(*    adjustments of the model are whole numbers, hence every percentage   *)
(*    change is a whole number of hundredths and currency.js rounds        *)
(*    nothing.                                                             *)
(*  - An object reference is the index of the object in the caller's       *)
(*    array; reference 0 is undefined.                                     *)
(***************************************************************************)
EXTENDS Integers, Sequences, FiniteSets, TLC

VARIABLES
  pc,              \* "start" before the call, then the function that returned
  engine,          \* how Array.prototype.sort treats elements its comparator calls tied
  roomTypes,       \* PriceComputer.roomTypes
  ratePlans,       \* PriceComputer.ratePlans / the ratePlans argument (caller-owned)
  defaultCurrency, \* PriceComputer.defaultCurrency
  modifiers,       \* the modifiers argument of a direct call (caller-owned objects)
  args,            \* the other arguments of the call
  ret              \* the value returned

vars == <<pc, engine, roomTypes, ratePlans, defaultCurrency, modifiers, args, ret>>

----------------------------------------------------------------------------
(* Bounds of the model *)

MaxMods == 3        \* longest modifier list
MaxPlans == 2       \* longest rate plan list
MaxStay == 3        \* longest stay, in nights
TicksPerDay == 2    \* instants told apart within one day

----------------------------------------------------------------------------
(* JS values *)

undefined == << >>

Some(v) == <<v>>

IsDefined(x) == x # undefined

Val(x) == x[1]

\* JS truthiness of an optional number: undefined and 0 are falsy
Truthy(x) == IsDefined(x) /\ Val(x) # 0

\* JS truthiness of an optional string: undefined and '' are falsy
TruthyString(x) == IsDefined(x) /\ Val(x) # ""

\* JS truthiness of an optional array or object: only undefined (or null) is
\* falsy, an empty array is truthy
TruthyObject(x) == IsDefined(x)

SeqsUpTo(S, n) == UNION {[1..k -> S] : k \in 0..n}

RECURSIVE SumSeq(_)
SumSeq(s) == IF s = << >> THEN 0 ELSE Head(s) + SumSeq(Tail(s))

\* F applied to the value of v, with v computed once
Strict(v, F(_)) == CHOOSE r \in {F(x) : x \in {v}} : TRUE

Abs(x) == IF x < 0 THEN -x ELSE x

----------------------------------------------------------------------------
(* dayjs *)

\* a date-only string of day d
Midnight(d) == d * TicksPerDay

\* the calendar day an instant falls on
DayOf(t) == t \div TicksPerDay

\* a.diff(b, 'days'): whole days from b to a, truncated towards zero
DiffDays(a, b) ==
  IF a - b >= 0 THEN (a - b) \div TicksPerDay ELSE -((b - a) \div TicksPerDay)

\* a.add(n, 'day') / a.subtract(n, 'days')
AddDays(a, n) == a + n * TicksPerDay

----------------------------------------------------------------------------
(* Modifiers (rate-plans.js) *)

Modifier(type, conditions, adjustment) ==
  [type |-> type, conditions |-> conditions, adjustment |-> adjustment,
   change |-> undefined]

Conditions(from, to, minLengthOfStay, minOccupants, maxAge) ==
  [from |-> from, to |-> to, minLengthOfStay |-> minLengthOfStay,
   minOccupants |-> minOccupants, maxAge |-> maxAge]

\* conditions: {}
NoConditions == Conditions(undefined, undefined, undefined, undefined, undefined)

\* mod.conditions.<field> of the object behind reference r
Cond(mods, r) == Val(mods[r].conditions)

\* What the filter callback of selectApplicableModifiers has seen so far.
FilterStart ==
  [maxMinLOS |-> 0, maxMinOccupants |-> 0, elementsToDrop |-> {}, kept |-> << >>]

\* A comparison that also turns away a threshold equal to the best so far
NotAboveBest(threshold, best) == threshold <= best

\* mod.conditions.minLengthOfStay < maxMinLOS.conditions.minLengthOfStay, and
\* the same of minOccupants
BelowBest(threshold, best) == threshold < best

\* One call of the filter callback, on the modifier behind reference r.
ModifierFilterStep(st, mods, r, dateDayjs, lengthOfStay, numberOfGuests) ==
  LET mod == mods[r]
      c == Val(mod.conditions)
      keep == [st EXCEPT !.kept = Append(@, r)]
  IN
  IF ~IsDefined(mod.type) \/ Val(mod.type) \notin {"percentage", "absolute"}
    THEN st
  ELSE IF ~IsDefined(mod.conditions)
    THEN st
  ELSE IF IsDefined(c.from) /\ DiffDays(Val(c.from), dateDayjs) > 0
    THEN st
  ELSE IF IsDefined(c.to) /\ DiffDays(Val(c.to), dateDayjs) < 0
    THEN st
  ELSE IF Truthy(c.minLengthOfStay)
    THEN IF Val(c.minLengthOfStay) > lengthOfStay
           THEN st
         ELSE IF st.maxMinLOS # 0
                 /\ BelowBest(Val(c.minLengthOfStay),
                              Val(Cond(mods, st.maxMinLOS).minLengthOfStay))
           THEN st
         ELSE [keep EXCEPT
                 !.elementsToDrop =
                     IF st.maxMinLOS # 0 THEN @ \cup {st.maxMinLOS} ELSE @,
                 !.maxMinLOS = r]
  ELSE IF Truthy(c.minOccupants)
    THEN IF Val(c.minOccupants) > numberOfGuests
           THEN st
         ELSE IF st.maxMinOccupants # 0
                 /\ BelowBest(Val(c.minOccupants),
                              Val(Cond(mods, st.maxMinOccupants).minOccupants))
           THEN st
         ELSE [keep EXCEPT
                 !.elementsToDrop =
                     IF st.maxMinOccupants # 0 THEN @ \cup {st.maxMinOccupants} ELSE @,
                 !.maxMinOccupants = r]
  ELSE keep

RECURSIVE ModifierFilter(_, _, _, _, _, _)
ModifierFilter(st, mods, r, dateDayjs, lengthOfStay, numberOfGuests) ==
  IF r > Len(mods) THEN st
  ELSE ModifierFilter(
         ModifierFilterStep(st, mods, r, dateDayjs, lengthOfStay, numberOfGuests),
         mods, r + 1, dateDayjs, lengthOfStay, numberOfGuests)

\* selectApplicableModifiers that lets modifiers without a known type or
\* without conditions through
selectApplicableModifiersOfAnyShape(mods, dateDayjs, lengthOfStay, numberOfGuests) ==
  IF Len(mods) = 0 THEN << >>
  ELSE LET st == ModifierFilter(FilterStart, mods, 1, dateDayjs, lengthOfStay,
                                numberOfGuests)
       IN SelectSeq([k \in 1..Len(mods) |-> k], LAMBDA r :
            \/ r \in {st.kept[k] : k \in 1..Len(st.kept)} \ st.elementsToDrop
            \/ ~IsDefined(mods[r].type)
            \/ Val(mods[r].type) \notin {"percentage", "absolute"}
            \/ ~IsDefined(mods[r].conditions))

\* selectApplicableModifiers: the references of the modifiers returned, in
\* input order.  An undefined and an empty modifiers array are both << >>.
selectApplicableModifiers(mods, dateDayjs, lengthOfStay, numberOfGuests) ==
  IF Len(mods) = 0 THEN << >>
  ELSE LET st == ModifierFilter(FilterStart, mods, 1, dateDayjs, lengthOfStay,
                                numberOfGuests)
       IN SelectSeq(st.kept, LAMBDA r : r \notin st.elementsToDrop)

\* ChangeOf with the percentage taken for an amount
ChangeOfAbsolute(mod, basePrice) == mod.adjustment * 100

\* The change of a modifier, in hundredths:
\* (adjustment / 100) * basePrice for 'percentage', adjustment otherwise.
ChangeOf(mod, basePrice) ==
  IF mod.type = Some("percentage") THEN mod.adjustment * basePrice
  ELSE mod.adjustment * 100

\* AgeReduceStep without the comparison of the two maxAge limits
AgeReduceStepAnyBracket(acc, r, basePrice, age) ==
  LET current == acc.heap[r]
      change == IF current.type = Some("percentage")
                  THEN current.adjustment * basePrice
                  ELSE current.adjustment * 100
  IN
  IF Val(Cond(acc.heap, r).maxAge) >= age
    THEN IF acc.best = 0 \/ change <= Val(acc.heap[acc.best].change)
           THEN [best |-> r, heap |-> [acc.heap EXCEPT ![r].change = Some(change)]]
           ELSE acc
    ELSE acc

\* AgeReduceStep that asks for a maxAge above the age of the guest
AgeReduceStepBelowLimit(acc, r, basePrice, age) ==
  LET current == acc.heap[r]
      change == IF current.type = Some("percentage")
                  THEN current.adjustment * basePrice
                  ELSE current.adjustment * 100
  IN
  IF Val(Cond(acc.heap, r).maxAge) > age
     /\ (acc.best = 0
         \/ Val(Cond(acc.heap, acc.best).maxAge) >= Val(Cond(acc.heap, r).maxAge))
    THEN IF acc.best = 0 \/ change <= Val(acc.heap[acc.best].change)
           THEN [best |-> r, heap |-> [acc.heap EXCEPT ![r].change = Some(change)]]
           ELSE acc
    ELSE acc

\* One call of the reduce callback of selectBestGuestModifier: acc.best is the
\* reference of `best` (0 is undefined), acc.heap the modifier objects, on
\* which the callback writes `change`.
AgeReduceStep(acc, r, basePrice, age) ==
  LET current == acc.heap[r]
      change == ChangeOf(current, basePrice)
  IN
  IF Val(Cond(acc.heap, r).maxAge) >= age
     /\ (acc.best = 0
         \/ Val(Cond(acc.heap, acc.best).maxAge) >= Val(Cond(acc.heap, r).maxAge))
    THEN IF acc.best = 0 \/ change <= Val(acc.heap[acc.best].change)
           THEN [best |-> r, heap |-> [acc.heap EXCEPT ![r].change = Some(change)]]
           ELSE acc
    ELSE acc

RECURSIVE AgeReduce(_, _, _, _)
AgeReduce(acc, refs, basePrice, age) ==
  IF refs = << >> THEN acc
  ELSE AgeReduce(AgeReduceStep(acc, Head(refs), basePrice, age), Tail(refs),
                 basePrice, age)

\* .map(mod => { mod.change = ...; return mod; }) over the generic modifiers
RECURSIVE WriteChanges(_, _, _)
WriteChanges(heap, refs, basePrice) ==
  IF refs = << >> THEN heap
  ELSE WriteChanges(
         [heap EXCEPT ![Head(refs)].change = Some(ChangeOf(heap[Head(refs)], basePrice))],
         Tail(refs), basePrice)

\* .sort((a, b) => (a.change <= b.change ? -1 : 1))[0].  The comparator calls
\* two modifiers of equal change out of order whichever way they are asked,
\* so which of them comes first is the engine's choice: an insertion sort
\* leaves the first of the input first, a sort that reverses descending runs
\* puts the last of the input first.
SortedFirst(heap, refs, eng) ==
  IF refs = << >> THEN 0
  ELSE LET least == SelectSeq(refs, LAMBDA r :
                      \A k \in 1..Len(refs) :
                        Val(heap[r].change) <= Val(heap[refs[k]].change))
       IN IF eng = "stable" THEN least[1] ELSE least[Len(least)]

\* selectBestGuestModifier taking the generic modifier whenever it is cheaper
\* than the age-specific one
selectBestGuestModifierCheapest(basePrice, mods, refs, age, eng) ==
  LET ageModifiers == SelectSeq(refs, LAMBDA r : IsDefined(Cond(mods, r).maxAge))
      selectedAgeModifier ==
        AgeReduce([best |-> 0, heap |-> mods], ageModifiers, basePrice, age)
      genericRefs ==
        SelectSeq(refs, LAMBDA r :
          IsDefined(mods[r].conditions) /\ ~IsDefined(Cond(mods, r).maxAge))
      genericModifiers == WriteChanges(selectedAgeModifier.heap, genericRefs, basePrice)
      generic == SortedFirst(genericModifiers, genericRefs, eng)
  IN
  IF selectedAgeModifier.best # 0
     /\ (generic = 0
         \/ Val(genericModifiers[selectedAgeModifier.best].change)
              <= Val(genericModifiers[generic].change))
    THEN [modifier |-> selectedAgeModifier.best, heap |-> genericModifiers]
    ELSE [modifier |-> generic, heap |-> genericModifiers]

\* selectBestGuestModifier(basePrice, modifiers, age), where the modifiers
\* array holds the references refs to the objects mods.  Returns the
\* reference of the modifier selected (0: undefined) and the objects as the
\* call leaves them.
selectBestGuestModifier(basePrice, mods, refs, age, eng) ==
  LET ageModifiers == SelectSeq(refs, LAMBDA r : IsDefined(Cond(mods, r).maxAge))
      selectedAgeModifier ==
        AgeReduce([best |-> 0, heap |-> mods], ageModifiers, basePrice, age)
      genericRefs ==
        SelectSeq(refs, LAMBDA r :
          IsDefined(mods[r].conditions) /\ ~IsDefined(Cond(mods, r).maxAge))
      genericModifiers == WriteChanges(selectedAgeModifier.heap, genericRefs, basePrice)
  IN
  IF selectedAgeModifier.best # 0
    THEN [modifier |-> selectedAgeModifier.best, heap |-> selectedAgeModifier.heap]
    ELSE [modifier |-> SortedFirst(genericModifiers, genericRefs, eng),
          heap |-> genericModifiers]

----------------------------------------------------------------------------
(* Rate plans (rate-plans.js) *)

Window(from, to) == [from |-> Midnight(from), to |-> Midnight(to)]

MinMax(min, max) == [min |-> min, max |-> max]

Restrictions(bookingCutOff, lengthOfStay) ==
  [bookingCutOff |-> bookingCutOff, lengthOfStay |-> lengthOfStay]

RatePlan(price, currency, roomTypeIds, availableForReservation, availableForTravel, restrictions, mods) ==
  [id |-> "", price |-> price, currency |-> currency, roomTypeIds |-> roomTypeIds,
   availableForReservation |-> availableForReservation,
   availableForTravel |-> availableForTravel,
   restrictions |-> restrictions, modifiers |-> mods]

\* The rate plans of a hotel have ids of their own, strings that are not
\* numbers: the plan at position k gets the k-th id.
RatePlanIds == <<"rpa", "rpb", "rpc", "rpd">>

WithIds(plans) == [k \in DOMAIN plans |-> [plans[k] EXCEPT !.id = RatePlanIds[k]]]

\* rp.currency || fallbackCurrency
CurrencyOf(rp, fallbackCurrency) ==
  IF IsDefined(rp.currency) THEN Val(rp.currency) ELSE fallbackCurrency

\* Math.abs(arrivalDateDayjs.diff(departureDateDayjs, 'days'))
LengthOfStay(arrivalDateDayjs, departureDateDayjs) ==
  Abs(DiffDays(arrivalDateDayjs, departureDateDayjs))

\* A travel test that asks the window to hold every night of the stay
MissesANight(availableForTravel, arrivalDateDayjs, departureDateDayjs) ==
  \/ availableForTravel.from > arrivalDateDayjs
  \/ availableForTravel.to < AddDays(departureDateDayjs, -1)

\* Rate plan is totally out of bounds of travel dates
OutOfTravelBounds(availableForTravel, arrivalDateDayjs, departureDateDayjs) ==
  \/ availableForTravel.to < arrivalDateDayjs
  \/ availableForTravel.from > departureDateDayjs

\* The filter callback of selectApplicableRatePlans
RatePlanFilter(rp, roomTypeId, bookingDateDayjs, arrivalDateDayjs, departureDateDayjs, fallbackCurrency, preferredCurrency) ==
  LET lengthOfStay == LengthOfStay(arrivalDateDayjs, departureDateDayjs)
      res == Val(rp.availableForReservation)
      trv == Val(rp.availableForTravel)
      cut == Val(Val(rp.restrictions).bookingCutOff)
      los == Val(Val(rp.restrictions).lengthOfStay)
  IN
  IF roomTypeId \notin rp.roomTypeIds
    THEN FALSE
  ELSE IF IsDefined(preferredCurrency)
          /\ CurrencyOf(rp, fallbackCurrency) # Val(preferredCurrency)
    THEN FALSE
  ELSE IF IsDefined(rp.availableForReservation)
          /\ (res.to < bookingDateDayjs \/ res.from > bookingDateDayjs)
    THEN FALSE
  ELSE IF IsDefined(rp.availableForTravel)
          /\ OutOfTravelBounds(trv, arrivalDateDayjs, departureDateDayjs)
    THEN FALSE
  ELSE IF IsDefined(rp.restrictions) /\ IsDefined(Val(rp.restrictions).bookingCutOff)
          /\ Truthy(cut.min)
          /\ AddDays(arrivalDateDayjs, -Val(cut.min)) < bookingDateDayjs
    THEN FALSE
  ELSE IF IsDefined(rp.restrictions) /\ IsDefined(Val(rp.restrictions).bookingCutOff)
          /\ Truthy(cut.max)
          /\ AddDays(arrivalDateDayjs, -Val(cut.max)) > bookingDateDayjs
    THEN FALSE
  ELSE IF IsDefined(rp.restrictions) /\ IsDefined(Val(rp.restrictions).lengthOfStay)
          /\ Truthy(los.min)
          /\ Val(los.min) > lengthOfStay
    THEN FALSE
  ELSE IF IsDefined(rp.restrictions) /\ IsDefined(Val(rp.restrictions).lengthOfStay)
          /\ Truthy(los.max)
          /\ Val(los.max) < lengthOfStay
    THEN FALSE
  ELSE TRUE

\* selectApplicableRatePlans: the references of the rate plans returned, in
\* input order
selectApplicableRatePlans(roomTypeId, plans, bookingDateDayjs, arrivalDateDayjs, departureDateDayjs, fallbackCurrency, preferredCurrency) ==
  SelectSeq([k \in 1..Len(plans) |-> k], LAMBDA r :
    RatePlanFilter(plans[r], roomTypeId, bookingDateDayjs, arrivalDateDayjs,
                   departureDateDayjs, fallbackCurrency, preferredCurrency))

----------------------------------------------------------------------------
(* Daily prices and the stay matrix (prices/index.js) *)

\* GuestPriceStep with a resulting price that stops at zero
GuestPriceStepClamped(acc, guest, ratePlan, applicableModifiers, currentCurrency, eng) ==
  Strict(selectBestGuestModifier(ratePlan.price, acc.heap, applicableModifiers,
                                 guest.age, eng),
         LAMBDA sel :
           LET applied == sel.modifier # 0 /\ Truthy(sel.heap[sel.modifier].change)
               delta == IF applied THEN Val(sel.heap[sel.modifier].change) ELSE 0
               guestResult ==
                 [guestId |-> guest.id, ratePlanId |-> ratePlan.id,
                  currency |-> currentCurrency,
                  basePrice |-> ratePlan.price * 100,
                  modifier |-> IF applied THEN sel.modifier ELSE 0,
                  resultingPrice |-> IF ratePlan.price * 100 + delta < 0 THEN 0
                                     ELSE ratePlan.price * 100 + delta]
           IN [guestPrices |-> Append(acc.guestPrices, guestResult), heap |-> sel.heap])

\* The body of the guest loop of computeDailyPrice: acc.guestPrices is the
\* array built so far, acc.heap the modifier objects of the rate plan.
\* A price line refers to its modifier (0: no modifier field).
GuestPriceStep(acc, guest, ratePlan, applicableModifiers, currentCurrency, eng) ==
  Strict(selectBestGuestModifier(ratePlan.price, acc.heap, applicableModifiers,
                                 guest.age, eng),
         LAMBDA sel :
           LET applied == sel.modifier # 0 /\ Truthy(sel.heap[sel.modifier].change)
               delta == IF applied THEN Val(sel.heap[sel.modifier].change) ELSE 0
               guestResult ==
                 [guestId |-> guest.id, ratePlanId |-> ratePlan.id,
                  currency |-> currentCurrency,
                  basePrice |-> ratePlan.price * 100,
                  modifier |-> IF applied THEN sel.modifier ELSE 0,
                  resultingPrice |-> ratePlan.price * 100 + delta]
           IN [guestPrices |-> Append(acc.guestPrices, guestResult), heap |-> sel.heap])

RECURSIVE GuestPriceLoop(_, _, _, _, _, _)
GuestPriceLoop(acc, guests, ratePlan, applicableModifiers, currentCurrency, eng) ==
  IF guests = << >> THEN acc
  ELSE Strict(GuestPriceStep(acc, Head(guests), ratePlan, applicableModifiers,
                             currentCurrency, eng),
              LAMBDA next : GuestPriceLoop(next, Tail(guests), ratePlan,
                                           applicableModifiers, currentCurrency, eng))

\* computeDailyPrice: the price lines, and the modifiers of the rate plan as
\* the call leaves them
computeDailyPrice(guests, lengthOfStay, dateDayjs, ratePlan, currentCurrency, eng) ==
  Strict(selectApplicableModifiers(ratePlan.modifiers, dateDayjs, lengthOfStay, Len(guests)),
         LAMBDA applicableModifiers :
           Strict(GuestPriceLoop([guestPrices |-> << >>, heap |-> ratePlan.modifiers],
                                 guests, ratePlan, applicableModifiers, currentCurrency, eng),
                  LAMBDA done : [guestPrices |-> done.guestPrices, modifiers |-> done.heap]))

\* A lookup that finds every currency under the first key
KeyIndexFirst(dailyPrices, c) ==
  IF dailyPrices = << >> THEN 0 ELSE 1

\* dailyPrices is an object keyed by currency: here the sequence of its
\* [currency, days] pairs in the order the keys were added.
KeyIndex(dailyPrices, c) ==
  IF \E k \in 1..Len(dailyPrices) : dailyPrices[k].currency = c
    THEN CHOOSE k \in 1..Len(dailyPrices) : dailyPrices[k].currency = c
    ELSE 0

PriceLineTotal(guestPrices) ==
  SumSeq([k \in 1..Len(guestPrices) |-> guestPrices[k].resultingPrice])

\* A test that counts every rate plan on every day
CountsOnAnyDay(currentRatePlan, currentDate) == TRUE

\* A test that leaves out the last day of the travel window
CountsOnBeforeLastDay(currentRatePlan, currentDate) ==
  \/ ~IsDefined(currentRatePlan.availableForTravel)
  \/ /\ currentDate >= Val(currentRatePlan.availableForTravel).from
     /\ currentDate < Val(currentRatePlan.availableForTravel).to

\* Rate plan without date restriction can be applied at any time; count only
\* rate plan ending sometimes during the stay
CountsOn(currentRatePlan, currentDate) ==
  LET availableForTravelFrom ==
        IF IsDefined(currentRatePlan.availableForTravel)
          THEN Val(currentRatePlan.availableForTravel).from ELSE currentDate
      availableForTravelTo ==
        IF IsDefined(currentRatePlan.availableForTravel)
          THEN Val(currentRatePlan.availableForTravel).to ELSE currentDate
  IN currentDate >= availableForTravelFrom /\ currentDate <= availableForTravelTo

\* The body of the rate plan loop of computeDailyRatePlans for night n
\* (i = n - 1) and the rate plan behind reference r.
RatePlanStep(acc, n, currentDate, r, guests, lengthOfStay, hotelCurrency, eng) ==
  LET currentRatePlan == acc.plans[r]
      currentCurrency == CurrencyOf(currentRatePlan, hotelCurrency)
      withKey ==
        IF KeyIndex(acc.dailyPrices, currentCurrency) = 0
          THEN Append(acc.dailyPrices, [currency |-> currentCurrency, days |-> << >>])
          ELSE acc.dailyPrices
      k == KeyIndex(withKey, currentCurrency)
      withDay ==
        IF Len(withKey[k].days) < n
          THEN [withKey EXCEPT ![k].days = Append(@, << >>)]
          ELSE withKey
  IN
  IF CountsOn(currentRatePlan, currentDate)
    THEN Strict(computeDailyPrice(guests, lengthOfStay, currentDate, currentRatePlan,
                                  currentCurrency, eng),
                LAMBDA dailyPrice :
                  [dailyPrices |->
                     [withDay EXCEPT ![k].days[n] =
                        Append(@, [date |-> currentDate, ratePlan |-> r,
                                   total |-> PriceLineTotal(dailyPrice.guestPrices),
                                   guestPrices |-> dailyPrice.guestPrices])],
                   plans |-> [acc.plans EXCEPT ![r].modifiers = dailyPrice.modifiers]])
    ELSE [dailyPrices |-> withDay, plans |-> acc.plans]

RECURSIVE RatePlanLoop(_, _, _, _, _, _, _, _)
RatePlanLoop(acc, n, currentDate, refs, guests, lengthOfStay, hotelCurrency, eng) ==
  IF refs = << >> THEN acc
  ELSE Strict(RatePlanStep(acc, n, currentDate, Head(refs), guests, lengthOfStay,
                           hotelCurrency, eng),
              LAMBDA next : RatePlanLoop(next, n, currentDate, Tail(refs), guests,
                                         lengthOfStay, hotelCurrency, eng))

RECURSIVE NightLoop(_, _, _, _, _, _, _, _)
NightLoop(acc, n, currentDate, refs, guests, lengthOfStay, hotelCurrency, eng) ==
  IF n > lengthOfStay THEN acc
  ELSE Strict(RatePlanLoop(acc, n, currentDate, refs, guests, lengthOfStay,
                           hotelCurrency, eng),
              LAMBDA next : NightLoop(next, n + 1, AddDays(currentDate, 1), refs, guests,
                                      lengthOfStay, hotelCurrency, eng))

\* Filter out currencies that do not cover the whole stay range
CoversStay(days, lengthOfStay) ==
  Len(SelectSeq(days, LAMBDA f : Len(f) > 0)) >= lengthOfStay

\* computeDailyRatePlans, where applicableRatePlans holds the references refs
\* to the rate plans `plans`: the matrix, and the rate plans as the call
\* leaves them
computeDailyRatePlans(arrivalDateDayjs, departureDateDayjs, guests, hotelCurrency, plans, refs, eng) ==
  LET lengthOfStay == LengthOfStay(arrivalDateDayjs, departureDateDayjs)
  IN Strict(NightLoop([dailyPrices |-> << >>, plans |-> plans], 1, arrivalDateDayjs,
                      refs, guests, lengthOfStay, hotelCurrency, eng),
            LAMBDA built :
              [dailyPrices |-> SelectSeq(built.dailyPrices,
                                         LAMBDA d : CoversStay(d.days, lengthOfStay)),
               plans |-> built.plans])

----------------------------------------------------------------------------
(* PriceComputer (prices/index.js) *)

\* b.date.format('YYYY-MM-DD')
FormatDate(t) == DayOf(t)

\* A reduce that keeps the first entry of the day
DailyBestFirst(agg, entries) ==
  IF entries = << >> THEN agg ELSE Some(Head(entries))

\* A reduce that keeps the last entry of the day
DailyBestLast(agg, entries) ==
  IF entries = << >> THEN agg ELSE Some(entries[Len(entries)])

\* The reduce of getBestPrice over the entries of one day: a later entry
\* replaces the aggregate when agg.total.subtract(curr.total) >= 0.
RECURSIVE DailyBest(_, _)
DailyBest(agg, entries) ==
  IF entries = << >> THEN agg
  ELSE Strict(IF agg = undefined \/ Val(agg).total - Head(entries).total >= 0
                THEN Some(Head(entries)) ELSE agg,
              LAMBDA next : DailyBest(next, Tail(entries)))

\* dailyBests[date] = dailyBest: an object keyed by the formatted date, here
\* the sequence of its [date, best] pairs in the order the keys were added;
\* setting an existing key replaces the value in place.
SetKey(dailyBests, date, best) ==
  IF \E k \in 1..Len(dailyBests) : dailyBests[k].date = date
    THEN [k \in 1..Len(dailyBests) |->
            IF dailyBests[k].date = date THEN [date |-> date, best |-> best]
            ELSE dailyBests[k]]
    ELSE Append(dailyBests, [date |-> date, best |-> best])

RECURSIVE DailyBests(_, _)
DailyBests(dailyBests, days) ==
  IF days = << >> THEN dailyBests
  ELSE Strict(SetKey(dailyBests, FormatDate(Head(days)[1].date),
                     Val(DailyBest(undefined, Head(days)))),
              LAMBDA next : DailyBests(next, Tail(days)))

\* The strategy of getBestPrice for one currency of the matrix
BestPriceOf(d) ==
  Strict(DailyBests(<< >>, d.days),
         LAMBDA dailyBests :
           [currency |-> d.currency,
            total |-> SumSeq([k \in 1..Len(dailyBests) |-> dailyBests[k].best.total]),
            drilldown |->
              [k \in 1..Len(dailyBests) |->
                 [date |-> dailyBests[k].date,
                  subtotal |-> PriceLineTotal(dailyBests[k].best.guestPrices),
                  prices |-> dailyBests[k].best.guestPrices]]])

getBestPriceStrategy(dailyPrices) ==
  [prices |-> [k \in 1..Len(dailyPrices) |-> BestPriceOf(dailyPrices[k])]]

\* ratePlanOccurrences: an object keyed by rate plan id, here the sequence of
\* its values in the order the keys were added.
AddOccurrence(occ, rp, plans) ==
  IF \E k \in 1..Len(occ) : plans[occ[k].ratePlan].id = plans[rp.ratePlan].id
    THEN [k \in 1..Len(occ) |->
            IF plans[occ[k].ratePlan].id = plans[rp.ratePlan].id
              THEN [occ[k] EXCEPT !.dailyPrices = Append(@, rp)]
              ELSE occ[k]]
    ELSE Append(occ, [ratePlan |-> rp.ratePlan, dailyPrices |-> <<rp>>])

RECURSIVE DayOccurrences(_, _, _)
DayOccurrences(occ, entries, plans) ==
  IF entries = << >> THEN occ
  ELSE Strict(AddOccurrence(occ, Head(entries), plans),
              LAMBDA next : DayOccurrences(next, Tail(entries), plans))

RECURSIVE RatePlanOccurrences(_, _, _)
RatePlanOccurrences(occ, days, plans) ==
  IF days = << >> THEN occ
  ELSE Strict(DayOccurrences(occ, Head(days), plans),
              LAMBDA next : RatePlanOccurrences(next, Tail(days), plans))

\* The map callback of the single rate plan strategies: the total and the
\* breakdown of one rate plan
SingleRatePlanPrice(rp) ==
  [ratePlan |-> rp.ratePlan,
   total |-> SumSeq([j \in 1..Len(rp.dailyPrices) |-> rp.dailyPrices[j].total]),
   drilldown |->
     [j \in 1..Len(rp.dailyPrices) |->
        [date |-> FormatDate(rp.dailyPrices[j].date),
         subtotal |-> rp.dailyPrices[j].total,
         prices |-> rp.dailyPrices[j].guestPrices]]]

\* The map without the filter on the number of nights
SingleRatePlanPricesUnfiltered(d, lengthOfStay, plans) ==
  Strict(RatePlanOccurrences(<< >>, d.days, plans),
         LAMBDA fitting : [k \in 1..Len(fitting) |-> SingleRatePlanPrice(fitting[k])])

\* .filter((rp) => rp.dailyPrices.length === lengthOfStay).map(...)
SingleRatePlanPrices(d, lengthOfStay, plans) ==
  Strict(SelectSeq(RatePlanOccurrences(<< >>, d.days, plans),
                   LAMBDA rp : Len(rp.dailyPrices) = lengthOfStay),
         LAMBDA fitting : [k \in 1..Len(fitting) |-> SingleRatePlanPrice(fitting[k])])

\* pop() without the sort
SortedLastUnsorted(items, eng) ==
  IF items = << >> THEN undefined ELSE Some(items[Len(items)])

\* .sort((a, b) => a.total >= b.total ? -1 : 1).pop(): the comparator calls
\* two plans of equal total out of order whichever way they are asked; an
\* insertion sort leaves them in input order and pop takes the last of them,
\* a sort that reverses descending runs makes pop take the first of them.
SortedLast(items, eng) ==
  IF items = << >> THEN undefined
  ELSE LET least == SelectSeq(items, LAMBDA a :
                      \A k \in 1..Len(items) : a.total <= items[k].total)
       IN Some(IF eng = "stable" THEN least[Len(least)] ELSE least[1])

\* The strategy of getBestPriceWithSingleRatePlan for one currency of the
\* matrix: { currency, ...bestRatePlan }, the last three fields undefined
\* when bestRatePlan is
BestSingleRatePlanOf(d, lengthOfStay, plans, eng) ==
  Strict(SortedLast(SingleRatePlanPrices(d, lengthOfStay, plans), eng),
         LAMBDA bestRatePlan :
           IF bestRatePlan = undefined
             THEN [currency |-> d.currency, ratePlan |-> undefined, total |-> undefined,
                   drilldown |-> undefined]
             ELSE [currency |-> d.currency, ratePlan |-> Some(Val(bestRatePlan).ratePlan),
                   total |-> Some(Val(bestRatePlan).total),
                   drilldown |-> Some(Val(bestRatePlan).drilldown)])

getBestPriceWithSingleRatePlanStrategy(dailyPrices, lengthOfStay, plans, eng) ==
  [prices |-> [k \in 1..Len(dailyPrices) |->
                 BestSingleRatePlanOf(dailyPrices[k], lengthOfStay, plans, eng)]]

getPossiblePricesWithSingleRatePlanStrategy(dailyPrices, lengthOfStay, plans) ==
  [prices |-> [k \in 1..Len(dailyPrices) |->
                 [currency |-> dailyPrices[k].currency,
                  ratePlans |-> SingleRatePlanPrices(dailyPrices[k], lengthOfStay, plans)]]]

\* ratePlansStrategy(dailyPrices, lengthOfStay)
RatePlansStrategy(strategy, dailyPrices, lengthOfStay, plans, eng) ==
  CASE strategy = "getBestPrice" -> getBestPriceStrategy(dailyPrices)
    [] strategy = "getBestPriceWithSingleRatePlan" ->
         getBestPriceWithSingleRatePlanStrategy(dailyPrices, lengthOfStay, plans, eng)
    [] strategy = "getPossiblePricesWithSingleRatePlan" ->
         getPossiblePricesWithSingleRatePlanStrategy(dailyPrices, lengthOfStay, plans)

\* The map callback of _determinePrices for one room type.  acc.results is
\* the array mapped so far, acc.plans the rate plans as the calls so far
\* have left them.  Next to id and prices a result keeps the matrix the
\* strategy was handed (dailyPrices), which the code does not return.
RoomTypeStep(acc, roomType, this, a, strategy, eng) ==
  Strict(selectApplicableRatePlans(roomType.id, acc.plans, a.bookingDate, a.arrivalDate,
                                   a.departureDate, Val(this.defaultCurrency), a.currency),
         LAMBDA applicableRatePlans :
           IF applicableRatePlans = << >>
             THEN [results |->
                     Append(acc.results,
                            [id |-> roomType.id, prices |-> << >>, dailyPrices |-> << >>]),
                   plans |-> acc.plans]
             ELSE Strict(computeDailyRatePlans(a.arrivalDate, a.departureDate, a.guests,
                                               Val(this.defaultCurrency), acc.plans,
                                               applicableRatePlans, eng),
                         LAMBDA computed :
                           [results |->
                              Append(acc.results,
                                     [id |-> roomType.id,
                                      prices |->
                                        RatePlansStrategy(
                                          strategy, computed.dailyPrices,
                                          LengthOfStay(a.arrivalDate, a.departureDate),
                                          computed.plans, eng).prices,
                                      dailyPrices |-> computed.dailyPrices]),
                            plans |-> computed.plans]))

RECURSIVE RoomTypeLoop(_, _, _, _, _, _)
RoomTypeLoop(acc, types, this, a, strategy, eng) ==
  IF types = << >> THEN acc
  ELSE Strict(RoomTypeStep(acc, Head(types), this, a, strategy, eng),
              LAMBDA next : RoomTypeLoop(next, Tail(types), this, a, strategy, eng))

\* _determinePrices that prices every room type whatever roomTypeId says
DeterminePricesOfEveryRoomType(this, a, strategy, eng) ==
  RoomTypeLoop([results |-> << >>, plans |-> this.ratePlans], this.roomTypes, this, a,
               strategy, eng)

\* PriceComputer._determinePrices
DeterminePrices(this, a, strategy, eng) ==
  LET types == IF IsDefined(a.roomTypeId)
                 THEN SelectSeq(this.roomTypes, LAMBDA rt : rt.id = Val(a.roomTypeId))
                 ELSE this.roomTypes
  IN RoomTypeLoop([results |-> << >>, plans |-> this.ratePlans], types, this, a,
                  strategy, eng)

----------------------------------------------------------------------------
(* Direct calls of selectApplicableModifiers *)

Engines == {"stable", "reversing"}

\* The day the modifiers are asked for
Today == 1

ThresholdValues == {undefined, Some(1), Some(2)}

\* Modifiers that differ in what selectApplicableModifiers looks at
ApplicableFixtures ==
  {Modifier(Some("percentage"), Some(Conditions(undefined, undefined, l, o, undefined)), -10) :
     l \in ThresholdValues, o \in ThresholdValues}
  \cup
  { \* starts tomorrow
    Modifier(Some("percentage"),
             Some(Conditions(Some(Midnight(Today + 1)), undefined, Some(2), undefined, undefined)), -10),
    \* ended yesterday
    Modifier(Some("absolute"),
             Some(Conditions(undefined, Some(Midnight(Today - 1)), undefined, Some(2), undefined)), -10),
    \* today only
    Modifier(Some("absolute"),
             Some(Conditions(Some(Midnight(Today)), Some(Midnight(Today)), Some(1), undefined, undefined)), -10),
    \* age bracket with a length of stay
    Modifier(Some("percentage"),
             Some(Conditions(undefined, undefined, Some(1), undefined, Some(16))), -10),
    \* no conditions at all
    Modifier(Some("percentage"), undefined, -10),
    \* no type, unknown type
    Modifier(undefined, Some(NoConditions), -10),
    Modifier(Some("relative"), Some(NoConditions), -10) }

InitApplicable ==
  /\ pc = "start"
  /\ engine = "stable"
  /\ roomTypes = << >>
  /\ ratePlans = << >>
  /\ defaultCurrency = undefined
  /\ modifiers \in SeqsUpTo(ApplicableFixtures, MaxMods)
  /\ args \in [dateDayjs : {Midnight(Today), Midnight(Today) + 1},
               lengthOfStay : 1..2,
               numberOfGuests : 1..2]
  /\ ret = << >>

SelectApplicableModifiers ==
  /\ pc = "start"
  /\ pc' = "selectApplicableModifiers"
  /\ ret' = selectApplicableModifiers(modifiers, args.dateDayjs, args.lengthOfStay,
                                      args.numberOfGuests)
  /\ UNCHANGED <<engine, roomTypes, ratePlans, defaultCurrency, modifiers, args>>

SpecApplicable == InitApplicable /\ [][SelectApplicableModifiers]_vars

----------------------------------------------------------------------------
(* Direct calls of selectBestGuestModifier *)

\* Modifiers that differ in what selectBestGuestModifier looks at
GuestFixtures ==
  {Modifier(Some(t[1]), Some(Conditions(undefined, undefined, undefined, undefined, a)), t[2]) :
     t \in {<<"percentage", -50>>, <<"percentage", -20>>, <<"absolute", -5>>, <<"absolute", 3>>},
     a \in {undefined, Some(10), Some(16)}}

InitBestGuest ==
  /\ pc = "start"
  /\ engine \in Engines
  /\ roomTypes = << >>
  /\ ratePlans = << >>
  /\ defaultCurrency = undefined
  /\ modifiers \in SeqsUpTo(GuestFixtures, MaxMods)
  /\ args \in [basePrice : {10, 20}, age : {5, 12, 16, 20}]
  /\ ret = << >>

\* The whole array is passed: the modifiers argument refers to every object.
SelectBestGuestModifier ==
  /\ pc = "start"
  /\ pc' = "selectBestGuestModifier"
  /\ LET r == selectBestGuestModifier(args.basePrice, modifiers,
                                      [k \in 1..Len(modifiers) |-> k], args.age, engine)
     IN /\ ret' = r.modifier
        /\ modifiers' = r.heap
  /\ UNCHANGED <<engine, roomTypes, ratePlans, defaultCurrency, args>>

SpecBestGuest == InitBestGuest /\ [][SelectBestGuestModifier]_vars

----------------------------------------------------------------------------
(* Properties of selectApplicableModifiers *)

\* The references a call returned
Returned == {ret[k] : k \in 1..Len(ret)}

\* The modifier behind r has a known type, has conditions, and the day asked
\* for lies within its from/to days.
Usable(r) ==
  /\ modifiers[r].type \in {Some("percentage"), Some("absolute")}
  /\ IsDefined(modifiers[r].conditions)
  /\ IsDefined(Cond(modifiers, r).from)
       => DayOf(Val(Cond(modifiers, r).from)) <= DayOf(args.dateDayjs)
  /\ IsDefined(Cond(modifiers, r).to)
       => DayOf(args.dateDayjs) <= DayOf(Val(Cond(modifiers, r).to))

MinLOS(r) == Cond(modifiers, r).minLengthOfStay

MinOccupants(r) == Cond(modifiers, r).minOccupants

\* C7: selectApplicableModifiers returns at most one modifier that carries
\* minLengthOfStay, its threshold does not exceed the stay length and no
\* usable modifier of the list has a larger threshold within the stay length;
\* the same holds of minOccupants against the number of guests.
C7_HighestThresholdOnly ==
  pc = "selectApplicableModifiers" =>
    LET los == {r \in Returned : IsDefined(MinLOS(r))}
        occ == {r \in Returned : IsDefined(MinOccupants(r))}
    IN /\ Cardinality(los) <= 1
       /\ \A r \in los :
            /\ Val(MinLOS(r)) <= args.lengthOfStay
            /\ \A q \in 1..Len(modifiers) :
                 (Usable(q) /\ IsDefined(MinLOS(q))
                  /\ Val(MinLOS(q)) <= args.lengthOfStay)
                 => Val(MinLOS(q)) <= Val(MinLOS(r))
       /\ Cardinality(occ) <= 1
       /\ \A r \in occ :
            /\ Val(MinOccupants(r)) <= args.numberOfGuests
            /\ \A q \in 1..Len(modifiers) :
                 (Usable(q) /\ IsDefined(MinOccupants(q))
                  /\ Val(MinOccupants(q)) <= args.numberOfGuests)
                 => Val(MinOccupants(q)) <= Val(MinOccupants(r))

\* C25: every modifier selectApplicableModifiers returns satisfies each of
\* its own conditions: the day asked for lies within its from/to days, its
\* minLengthOfStay does not exceed the stay length and its minOccupants does
\* not exceed the number of guests, also when it carries several of them.
C25_EveryConditionHolds ==
  pc = "selectApplicableModifiers" =>
    \A r \in Returned :
      /\ Usable(r)
      /\ IsDefined(MinLOS(r)) => Val(MinLOS(r)) <= args.lengthOfStay
      /\ IsDefined(MinOccupants(r)) => Val(MinOccupants(r)) <= args.numberOfGuests

\* The modifier behind r is returned when it is the only one of the list
Satisfied(r) ==
  selectApplicableModifiers(<<modifiers[r]>>, args.dateDayjs, args.lengthOfStay,
                            args.numberOfGuests) # << >>

\* The satisfied modifiers that compete on minLengthOfStay, and those that
\* compete on minOccupants (a modifier with both competes on the first)
LOSGroup == {r \in 1..Len(modifiers) : Satisfied(r) /\ IsDefined(MinLOS(r))}

OccupantsGroup ==
  {r \in 1..Len(modifiers) :
     Satisfied(r) /\ ~IsDefined(MinLOS(r)) /\ IsDefined(MinOccupants(r))}

\* The members of the group that share its largest threshold
Largest(group, Threshold(_)) ==
  {r \in group : \A q \in group : Val(Threshold(q)) <= Val(Threshold(r))}

C13_KnownTypeAndConditions ==
  pc = "selectApplicableModifiers" =>
    \A r \in Returned :
      /\ modifiers[r].type \in {Some("percentage"), Some("absolute")}
      /\ modifiers[r].conditions # undefined

\* A modifier came back from a list that also held one without a type or of
\* an unknown type and one without conditions
C13_Witness ==
  /\ pc = "selectApplicableModifiers"
  /\ Returned # {}
  /\ \E r \in 1..Len(modifiers) :
       modifiers[r].type \notin {Some("percentage"), Some("absolute")}
  /\ \E r \in 1..Len(modifiers) :
       /\ modifiers[r].type \in {Some("percentage"), Some("absolute")}
       /\ modifiers[r].conditions = undefined

----------------------------------------------------------------------------
(* Properties of selectBestGuestModifier *)

MaxAgeOf(r) == Val(Cond(modifiers, r).maxAge)

\* Age-specific modifiers the guest qualifies for
Qualifying ==
  {r \in 1..Len(modifiers) :
     IsDefined(Cond(modifiers, r).maxAge) /\ MaxAgeOf(r) >= args.age}

\* Modifiers without maxAge
Generic == {r \in 1..Len(modifiers) : ~IsDefined(Cond(modifiers, r).maxAge)}

\* adjustment/100 * basePrice for a percentage modifier, adjustment for an
\* absolute one, in hundredths
StatedChange(r) ==
  IF modifiers[r].type = Some("percentage")
    THEN modifiers[r].adjustment * args.basePrice
    ELSE modifiers[r].adjustment * 100

Selected == pc = "selectBestGuestModifier"

\* C8 as stated: the modifier returned has the smallest maxAge among the
\* qualifying age-specific modifiers, and the lowest change among those that
\* share that maxAge.
C8_SmallestMaxAge ==
  (Selected /\ Qualifying # {}) =>
    /\ ret \in Qualifying
    /\ \A q \in Qualifying : MaxAgeOf(ret) <= MaxAgeOf(q)
    /\ \A q \in Qualifying :
         MaxAgeOf(q) = MaxAgeOf(ret) => StatedChange(ret) <= StatedChange(q)

\* C8 as amended: the modifier returned is a qualifying age-specific one, and
\* every qualifying modifier of a smaller maxAge has a strictly higher change.
C8_CloserBracketCostsMore ==
  (Selected /\ Qualifying # {}) =>
    /\ ret \in Qualifying
    /\ \A q \in Qualifying :
         MaxAgeOf(q) < MaxAgeOf(ret) => StatedChange(q) > StatedChange(ret)

\* A tighter bracket qualified and was passed over.
C8_Witness ==
  /\ Selected
  /\ ret \in Qualifying
  /\ \E q \in Qualifying : MaxAgeOf(q) < MaxAgeOf(ret)

\* C9: when an age-specific modifier qualifies the result is age-specific,
\* whatever the generic modifiers offer; when none qualifies the result is the
\* generic modifier of the lowest change, or undefined without generic ones.
C9_AgeSpecificFirst ==
  Selected =>
    /\ Qualifying # {} => ret \in Qualifying
    /\ (Qualifying = {} /\ Generic = {}) => ret = 0
    /\ (Qualifying = {} /\ Generic # {}) =>
         /\ ret \in Generic
         /\ \A g \in Generic : StatedChange(ret) <= StatedChange(g)

\* An age-specific modifier was returned although a generic one is cheaper.
C9_Witness ==
  /\ Selected
  /\ ret \in Qualifying
  /\ \E g \in Generic : StatedChange(g) < StatedChange(ret)

C11_NeverBelowAge ==
  Selected =>
    /\ (ret # 0 /\ IsDefined(Cond(modifiers, ret).maxAge)) => MaxAgeOf(ret) >= args.age
    /\ (\E r \in 1..Len(modifiers) :
          IsDefined(Cond(modifiers, r).maxAge) /\ MaxAgeOf(r) = args.age)
         => (ret # 0 /\ IsDefined(Cond(modifiers, ret).maxAge))
    /\ (Qualifying = {} /\ Generic = {}) => ret = 0

\* The guest is exactly as old as the limit of the modifier returned, which
\* was taken over a generic modifier and a modifier of a lower limit
C11_Witness ==
  /\ Selected
  /\ ret # 0
  /\ Cond(modifiers, ret).maxAge = Some(args.age)
  /\ Generic # {}
  /\ \E r \in 1..Len(modifiers) :
       IsDefined(Cond(modifiers, r).maxAge) /\ MaxAgeOf(r) < args.age

\* Two candidates of the same specificity (the same maxAge, or both generic)
\* and the same change
Tied(q, r) ==
  /\ StatedChange(q) = StatedChange(r)
  /\ \/ q \in Qualifying /\ r \in Qualifying /\ MaxAgeOf(q) = MaxAgeOf(r)
     \/ q \in Generic /\ r \in Generic

\* C27: of the candidates that tie with the modifier returned on specificity
\* and change, none comes before it in the list.
C27_TieKeepsFirstOfList ==
  (Selected /\ ret # 0) => \A q \in 1..(ret - 1) : ~Tied(q, ret)

\* The orderings of the modifier list: arrays of the same objects
Orderings ==
  {p \in [1..Len(modifiers) -> 1..Len(modifiers)] :
     \A i, j \in 1..Len(modifiers) : p[i] = p[j] => i = j}

DistinctChanges ==
  \A q, r \in 1..Len(modifiers) : StatedChange(q) = StatedChange(r) => q = r

\* C30: when no two modifiers have the same change, every ordering of the
\* modifier list gives the modifier that the call has returned.
C30_OrderIndependent ==
  (Selected /\ DistinctChanges) =>
    \A p \in Orderings :
      selectBestGuestModifier(args.basePrice, modifiers, p, args.age, engine).modifier = ret

\* C14: a call leaves the objects it was handed as they were: every
\* modifier has the same fields and values after selectBestGuestModifier has
\* returned as before the call.
C14_InputsUntouched == [][modifiers' = modifiers /\ args' = args]_vars

----------------------------------------------------------------------------
(* Direct calls of selectApplicableRatePlans *)

\* The day of arrival
ArrivalDay == 2

\* A plan of room type rtb in the fallback currency with nothing else set
PlainPlan == RatePlan(100, undefined, {"rtb"}, undefined, undefined, undefined, << >>)

\* Rate plans that each differ from PlainPlan in one thing the selector checks
SelectorFixtures ==
  {PlainPlan,
   [PlainPlan EXCEPT !.roomTypeIds = {"rta"}],
   [PlainPlan EXCEPT !.currency = Some("EUR")],
   [PlainPlan EXCEPT !.availableForReservation = Some(Window(ArrivalDay - 1, ArrivalDay - 1))]}
  \cup
  {[PlainPlan EXCEPT !.availableForTravel = Some(w)] :
     w \in {Window(ArrivalDay - 2, ArrivalDay - 1), Window(ArrivalDay, ArrivalDay),
            Window(ArrivalDay + 2, ArrivalDay + 3)}}
  \cup
  {[PlainPlan EXCEPT !.restrictions = Some(Restrictions(Some(c), undefined))] :
     c \in {MinMax(Some(1), undefined), MinMax(Some(2), undefined),
            MinMax(undefined, Some(1)), MinMax(undefined, Some(0)),
            MinMax(Some(1), Some(2))}}
  \cup
  {[PlainPlan EXCEPT !.restrictions = Some(Restrictions(undefined, Some(l)))] :
     l \in {MinMax(Some(2), undefined), MinMax(undefined, Some(1)),
            MinMax(undefined, Some(0))}}

InitRatePlans ==
  /\ pc = "start"
  /\ engine = "stable"
  /\ roomTypes = << >>
  /\ \E plans \in SeqsUpTo(SelectorFixtures, MaxPlans) : ratePlans = WithIds(plans)
  /\ defaultCurrency = undefined
  /\ modifiers = << >>
  /\ args \in [roomTypeId : {"rtb"},
               bookingDateDayjs : Midnight(ArrivalDay - 2)..(Midnight(ArrivalDay + 1) - 1),
               arrivalDateDayjs : {Midnight(ArrivalDay)},
               departureDateDayjs : {Midnight(ArrivalDay + 1), Midnight(ArrivalDay + 2)},
               fallbackCurrency : {"CZK"},
               preferredCurrency : {undefined, Some("CZK"), Some("EUR")}]
  /\ ret = << >>

SelectApplicableRatePlans ==
  /\ pc = "start"
  /\ pc' = "selectApplicableRatePlans"
  /\ ret' = selectApplicableRatePlans(args.roomTypeId, ratePlans, args.bookingDateDayjs,
                                      args.arrivalDateDayjs, args.departureDateDayjs,
                                      args.fallbackCurrency, args.preferredCurrency)
  /\ UNCHANGED <<engine, roomTypes, ratePlans, defaultCurrency, modifiers, args>>

SpecRatePlans == InitRatePlans /\ [][SelectApplicableRatePlans]_vars

----------------------------------------------------------------------------
(* Properties of selectApplicableRatePlans *)

\* Whole days from the booking day to the arrival day
DaysToArrival == DayOf(args.arrivalDateDayjs) - DayOf(args.bookingDateDayjs)

\* Nights of the stay
Nights == Abs(DayOf(args.departureDateDayjs) - DayOf(args.arrivalDateDayjs))

\* The checks a rate plan has to pass, each as the selector's contract states it
PassesRoomType(rp) == args.roomTypeId \in rp.roomTypeIds

PassesCurrency(rp) ==
  IsDefined(args.preferredCurrency) =>
    (IF IsDefined(rp.currency) THEN rp.currency ELSE Some(args.fallbackCurrency))
      = args.preferredCurrency

PassesReservation(rp) ==
  IsDefined(rp.availableForReservation) =>
    /\ DayOf(Val(rp.availableForReservation).from) <= DayOf(args.bookingDateDayjs)
    /\ DayOf(args.bookingDateDayjs) <= DayOf(Val(rp.availableForReservation).to)

PassesTravel(rp) ==
  IsDefined(rp.availableForTravel) =>
    /\ DayOf(Val(rp.availableForTravel).to) >= DayOf(args.arrivalDateDayjs)
    /\ DayOf(Val(rp.availableForTravel).from) <= DayOf(args.departureDateDayjs)

PassesBookingCutOff(rp) ==
  (IsDefined(rp.restrictions) /\ IsDefined(Val(rp.restrictions).bookingCutOff)) =>
    LET cut == Val(Val(rp.restrictions).bookingCutOff)
    IN /\ IsDefined(cut.min) => Val(cut.min) <= DaysToArrival
       /\ IsDefined(cut.max) => DaysToArrival <= Val(cut.max)

PassesLengthOfStay(rp) ==
  (IsDefined(rp.restrictions) /\ IsDefined(Val(rp.restrictions).lengthOfStay)) =>
    LET los == Val(Val(rp.restrictions).lengthOfStay)
    IN /\ IsDefined(los.min) => Val(los.min) <= Nights
       /\ IsDefined(los.max) => Nights <= Val(los.max)

PassesAll(rp) ==
  /\ PassesRoomType(rp)
  /\ PassesCurrency(rp)
  /\ PassesReservation(rp)
  /\ PassesTravel(rp)
  /\ PassesBookingCutOff(rp)
  /\ PassesLengthOfStay(rp)

\* C6: selectApplicableRatePlans returns, in input order, exactly the rate
\* plans that pass the room type, currency, reservation window, travel
\* window, booking cut-off and length-of-stay checks.
C6_ExactlyThePassingPlans ==
  pc = "selectApplicableRatePlans" =>
    ret = SelectSeq([k \in 1..Len(ratePlans) |-> k], LAMBDA r : PassesAll(ratePlans[r]))

\* The rate plan would be kept if it had no availableForTravel
KeptWithoutTravelWindow(rp) ==
  RatePlanFilter([rp EXCEPT !.availableForTravel = undefined], args.roomTypeId,
                 args.bookingDateDayjs, args.arrivalDateDayjs, args.departureDateDayjs,
                 args.fallbackCurrency, args.preferredCurrency)

InResult(r) == \E k \in 1..Len(ret) : ret[k] = r

\* C24: a rate plan that would be kept without its availableForTravel is
\* rejected exactly when the window ends before the arrival or starts after
\* the departure; a window that overlaps the stay without covering every
\* night keeps the plan.
C24_TravelWindowOverlap ==
  pc = "selectApplicableRatePlans" =>
    \A r \in 1..Len(ratePlans) :
      KeptWithoutTravelWindow(ratePlans[r]) => (InResult(r) <=> PassesTravel(ratePlans[r]))

\* A plan for the arrival day alone is kept for a stay of two nights
C24_Witness ==
  /\ pc = "selectApplicableRatePlans"
  /\ Nights = 2
  /\ \E r \in 1..Len(ratePlans) :
       /\ ratePlans[r].availableForTravel = Some(Window(ArrivalDay, ArrivalDay))
       /\ InResult(r)

----------------------------------------------------------------------------
(* Calls of the PriceComputer and direct calls of computeDailyRatePlans *)

\* A plan of both room types in the fallback currency, open on every day
OpenPlan == RatePlan(10, undefined, {"rta", "rtb"}, undefined, undefined, undefined, << >>)

ChildDiscount ==
  Modifier(Some("percentage"),
           Some(Conditions(undefined, undefined, undefined, undefined, Some(10))), -50)

LongStayDiscount ==
  Modifier(Some("absolute"),
           Some(Conditions(undefined, undefined, Some(2), undefined, undefined)), -1)

\* Rate plans that differ in price, currency, travel window and modifiers
PriceFixtures ==
  {OpenPlan,
   \* cheaper, the first night only
   [OpenPlan EXCEPT !.price = 8,
                    !.availableForTravel = Some(Window(ArrivalDay, ArrivalDay))],
   \* dearer, from the second night on
   [OpenPlan EXCEPT !.price = 12, !.roomTypeIds = {"rtb"},
                    !.availableForTravel = Some(Window(ArrivalDay + 1, ArrivalDay + MaxStay))],
   \* another currency
   [OpenPlan EXCEPT !.currency = Some("EUR"), !.roomTypeIds = {"rtb"}],
   \* another currency, the second night only
   [OpenPlan EXCEPT !.price = 7, !.currency = Some("EUR"),
                    !.availableForTravel = Some(Window(ArrivalDay + 1, ArrivalDay + 1))],
   \* children at half the price
   [OpenPlan EXCEPT !.roomTypeIds = {"rtb"}, !.modifiers = <<ChildDiscount>>],
   \* cheaper for longer stays
   [OpenPlan EXCEPT !.price = 11, !.roomTypeIds = {"rta"},
                    !.modifiers = <<LongStayDiscount, ChildDiscount>>]}

GuestLists ==
  {<<[id |-> "g1", age |-> 30]>>,
   <<[id |-> "g1", age |-> 30], [id |-> "g2", age |-> 5]>>}

\* new PriceComputer(roomTypes, ratePlans, defaultCurrency) has run
InitPrices ==
  /\ pc = "start"
  /\ engine \in Engines
  /\ roomTypes = <<[id |-> "rta"], [id |-> "rtb"]>>
  /\ \E plans \in SeqsUpTo(PriceFixtures, MaxPlans) : ratePlans = WithIds(plans)
  /\ defaultCurrency = Some("CZK")
  /\ modifiers = << >>
  /\ args \in [bookingDate : {Midnight(ArrivalDay - 1)},
               arrivalDate : {Midnight(ArrivalDay)},
               departureDate : {Midnight(ArrivalDay + n) : n \in 1..MaxStay},
               guests : GuestLists,
               currency : {undefined, Some("EUR")},
               roomTypeId : {undefined, Some("rtb"), Some("rtx")}]
  /\ ret = << >>

This == [roomTypes |-> roomTypes, ratePlans |-> ratePlans, defaultCurrency |-> defaultCurrency]

\* The three public methods.  Each leaves the rate plans as its calls of
\* selectBestGuestModifier have written them.
GetBestPrice ==
  /\ pc = "start"
  /\ pc' = "getBestPrice"
  /\ \E r \in {DeterminePrices(This, args, "getBestPrice", engine)} :
       /\ ret' = r.results
       /\ ratePlans' = r.plans
  /\ UNCHANGED <<engine, roomTypes, defaultCurrency, modifiers, args>>

GetBestPriceWithSingleRatePlan ==
  /\ pc = "start"
  /\ pc' = "getBestPriceWithSingleRatePlan"
  /\ \E r \in {DeterminePrices(This, args, "getBestPriceWithSingleRatePlan", engine)} :
       /\ ret' = r.results
       /\ ratePlans' = r.plans
  /\ UNCHANGED <<engine, roomTypes, defaultCurrency, modifiers, args>>

GetPossiblePricesWithSingleRatePlan ==
  /\ pc = "start"
  /\ pc' = "getPossiblePricesWithSingleRatePlan"
  /\ \E r \in {DeterminePrices(This, args, "getPossiblePricesWithSingleRatePlan", engine)} :
       /\ ret' = r.results
       /\ ratePlans' = r.plans
  /\ UNCHANGED <<engine, roomTypes, defaultCurrency, modifiers, args>>

\* computeDailyRatePlans called with every rate plan of the hotel
ComputeDailyRatePlans ==
  /\ pc = "start"
  /\ pc' = "computeDailyRatePlans"
  /\ \E r \in {computeDailyRatePlans(args.arrivalDate, args.departureDate, args.guests,
                                      Val(defaultCurrency), ratePlans,
                                      [k \in 1..Len(ratePlans) |-> k], engine)} :
       /\ ret' = r.dailyPrices
       /\ ratePlans' = r.plans
  /\ UNCHANGED <<engine, roomTypes, defaultCurrency, modifiers, args>>

NextPrices ==
  \/ GetBestPrice
  \/ GetBestPriceWithSingleRatePlan
  \/ GetPossiblePricesWithSingleRatePlan
  \/ ComputeDailyRatePlans

SpecPrices == InitPrices /\ [][NextPrices]_vars

----------------------------------------------------------------------------
(* Properties of computeDailyRatePlans and of the PriceComputer *)

StrategyResult ==
  pc \in {"getBestPrice", "getBestPriceWithSingleRatePlan",
          "getPossiblePricesWithSingleRatePlan"}

\* Every stay matrix the finished call has built
Matrices ==
  IF pc = "computeDailyRatePlans" THEN {ret}
  ELSE IF StrategyResult THEN {ret[k].dailyPrices : k \in 1..Len(ret)}
  ELSE {}

StayNights == Abs(DiffDays(args.arrivalDate, args.departureDate))

NightDate(n) == AddDays(args.arrivalDate, n - 1)

EffectiveCurrency(rp) ==
  IF rp.currency = undefined THEN Val(defaultCurrency) ELSE Val(rp.currency)

\* The rate plan is a candidate of night n
InTravelWindow(rp, n) ==
  \/ rp.availableForTravel = undefined
  \/ /\ Val(rp.availableForTravel).from <= NightDate(n)
     /\ NightDate(n) <= Val(rp.availableForTravel).to

Currencies(m) == {m[k].currency : k \in 1..Len(m)}

\* C1: every currency of a stay matrix has a cell for every night of the
\* stay and no cell is empty; a currency that has a night without a candidate
\* rate plan is not in the result of computeDailyRatePlans.
C1_CoverageInvariant ==
  /\ \A m \in Matrices : \A k \in 1..Len(m) :
       /\ Len(m[k].days) = StayNights
       /\ \A n \in 1..StayNights : m[k].days[n] # << >>
  /\ pc = "computeDailyRatePlans" =>
       \A r \in 1..Len(ratePlans) :
         (\E n \in 1..StayNights :
            \A q \in 1..Len(ratePlans) :
              EffectiveCurrency(ratePlans[q]) = EffectiveCurrency(ratePlans[r])
                => ~InTravelWindow(ratePlans[q], n))
         => EffectiveCurrency(ratePlans[r]) \notin Currencies(ret)

\* A stay of two nights or more where one currency is kept and another, whose
\* plans miss a night, is dropped
C1_Witness ==
  /\ pc = "computeDailyRatePlans"
  /\ StayNights >= 2
  /\ ret # << >>
  /\ \E r \in 1..Len(ratePlans) :
       /\ EffectiveCurrency(ratePlans[r]) \notin Currencies(ret)
       /\ \E n \in 1..StayNights : InTravelWindow(ratePlans[r], n)

MinTotal(cell) ==
  CHOOSE t \in {cell[e].total : e \in 1..Len(cell)} :
    \A e \in 1..Len(cell) : t <= cell[e].total

\* C2: for every room type and currency of the stay matrix getBestPrice
\* reports the sum over the nights of the lowest entry total of each night,
\* and its breakdown has one element per night in ascending date order.
C2_PerNightMinimum ==
  pc = "getBestPrice" =>
    \A k \in 1..Len(ret) :
      /\ Len(ret[k].prices) = Len(ret[k].dailyPrices)
      /\ \A j \in 1..Len(ret[k].prices) :
           LET price == ret[k].prices[j]
               d == ret[k].dailyPrices[j]
           IN /\ price.currency = d.currency
              /\ price.total = SumSeq([n \in 1..StayNights |-> MinTotal(d.days[n])])
              /\ Len(price.drilldown) = StayNights
              /\ \A n \in 1..StayNights : price.drilldown[n].date = DayOf(NightDate(n))

\* A total whose nights come from different rate plans, one of them a night
\* where a dearer entry was passed over
C2_Witness ==
  /\ pc = "getBestPrice"
  /\ \E k \in 1..Len(ret) : \E j \in 1..Len(ret[k].prices) :
       LET price == ret[k].prices[j]
           d == ret[k].dailyPrices[j]
       IN /\ \E n1, n2 \in 1..Len(price.drilldown) :
               price.drilldown[n1].prices[1].ratePlanId
                 # price.drilldown[n2].prices[1].ratePlanId
          /\ \E n \in 1..Len(d.days) : \E e \in 1..Len(d.days[n]) :
               d.days[n][e].total > MinTotal(d.days[n])

\* The rate plan behind reference p has an entry on every night of d
CoversEveryNight(d, p) ==
  \A n \in 1..StayNights : \E e \in 1..Len(d.days[n]) : d.days[n][e].ratePlan = p

EntryTotal(cell, p) ==
  cell[CHOOSE e \in 1..Len(cell) : cell[e].ratePlan = p].total

PlanTotal(d, p) == SumSeq([n \in 1..StayNights |-> EntryTotal(d.days[n], p)])

FullCoveragePlans(d) ==
  {p \in 1..Len(ratePlans) : CoversEveryNight(d, p)}

C4_ExactlyFullCoveragePlans ==
  pc = "getPossiblePricesWithSingleRatePlan" =>
    \A k \in 1..Len(ret) :
      /\ Len(ret[k].prices) = Len(ret[k].dailyPrices)
      /\ \A j \in 1..Len(ret[k].prices) :
           LET listed == ret[k].prices[j].ratePlans
               d == ret[k].dailyPrices[j]
           IN /\ ret[k].prices[j].currency = d.currency
              /\ {listed[i].ratePlan : i \in 1..Len(listed)} = FullCoveragePlans(d)
              /\ Cardinality(FullCoveragePlans(d)) = Len(listed)
              /\ \A i \in 1..Len(listed) :
                   listed[i].total = PlanTotal(d, listed[i].ratePlan)

\* A list that holds a plan and leaves out another that has entries on some
\* nights of the same currency only
C4_Witness ==
  /\ pc = "getPossiblePricesWithSingleRatePlan"
  /\ \E k \in 1..Len(ret) : \E j \in 1..Len(ret[k].prices) :
       LET d == ret[k].dailyPrices[j]
       IN /\ ret[k].prices[j].ratePlans # << >>
          /\ \E n \in 1..Len(d.days) : \E e \in 1..Len(d.days[n]) :
               ~CoversEveryNight(d, d.days[n][e].ratePlan)

\* The price lines all come from rate plans whose currency is c
LinesInCurrency(lines, c) ==
  \A g \in 1..Len(lines) :
    /\ lines[g].currency = c
    /\ \E r \in 1..Len(ratePlans) :
         ratePlans[r].id = lines[g].ratePlanId /\ EffectiveCurrency(ratePlans[r]) = c

BreakdownInCurrency(drilldown, c) ==
  \A n \in 1..Len(drilldown) : LinesInCurrency(drilldown[n].prices, c)

\* What a strategy has listed under one currency comes from that currency
PriceInCurrency(price) ==
  CASE pc = "getBestPrice" -> BreakdownInCurrency(price.drilldown, price.currency)
    [] pc = "getBestPriceWithSingleRatePlan" ->
         price.ratePlan # undefined =>
           /\ EffectiveCurrency(ratePlans[Val(price.ratePlan)]) = price.currency
           /\ BreakdownInCurrency(Val(price.drilldown), price.currency)
    [] pc = "getPossiblePricesWithSingleRatePlan" ->
         \A i \in 1..Len(price.ratePlans) :
           /\ EffectiveCurrency(ratePlans[price.ratePlans[i].ratePlan]) = price.currency
           /\ BreakdownInCurrency(price.ratePlans[i].drilldown, price.currency)

\* C5: in every stay matrix and in the result of every strategy, what is
\* listed under a currency comes from rate plans of that effective currency,
\* and every night of a listed currency has a candidate rate plan of that
\* currency: a plan of another currency never fills the night.
C5_CurrencyIsolation ==
  /\ \A m \in Matrices : \A k \in 1..Len(m) :
       /\ \A n \in 1..Len(m[k].days) : \A e \in 1..Len(m[k].days[n]) :
            /\ EffectiveCurrency(ratePlans[m[k].days[n][e].ratePlan]) = m[k].currency
            /\ LinesInCurrency(m[k].days[n][e].guestPrices, m[k].currency)
       /\ \A n \in 1..StayNights : \E r \in 1..Len(ratePlans) :
            /\ EffectiveCurrency(ratePlans[r]) = m[k].currency
            /\ InTravelWindow(ratePlans[r], n)
  /\ StrategyResult =>
       \A k \in 1..Len(ret) : \A j \in 1..Len(ret[k].prices) :
         PriceInCurrency(ret[k].prices[j])

\* One currency is priced while the plans of another, which cover only some
\* of the nights, are left out
C5_Witness ==
  /\ StrategyResult
  /\ StayNights >= 2
  /\ \E k \in 1..Len(ret) :
       /\ Len(ret[k].prices) = 1
       /\ \E r \in 1..Len(ratePlans) :
            /\ EffectiveCurrency(ratePlans[r]) # ret[k].prices[1].currency
            /\ ret[k].id \in ratePlans[r].roomTypeIds
            /\ \E n \in 1..StayNights : InTravelWindow(ratePlans[r], n)

\* The rate plan can be sold for the room type: the rate plans of
\* PriceFixtures have no reservation window and no restrictions, so the room
\* type, the currency asked for and the travel window decide.
SoldFor(rp, roomTypeId) ==
  /\ roomTypeId \in rp.roomTypeIds
  /\ args.currency # undefined => EffectiveCurrency(rp) = Val(args.currency)
  /\ rp.availableForTravel # undefined =>
       /\ Val(rp.availableForTravel).to >= args.arrivalDate
       /\ Val(rp.availableForTravel).from <= args.departureDate

\* C16: every strategy returns, without an error, prices = [] for a room type
\* that has no applicable rate plan and for a room type whose matrix is left
\* without a currency, and an empty list when roomTypeId names no room type.
C16_EmptyNotError ==
  StrategyResult =>
    /\ (args.roomTypeId # undefined
        /\ \A t \in 1..Len(roomTypes) : roomTypes[t].id # Val(args.roomTypeId))
         => ret = << >>
    /\ \A k \in 1..Len(ret) :
         /\ (\A r \in 1..Len(ratePlans) : ~SoldFor(ratePlans[r], ret[k].id))
              => ret[k].prices = << >>
         /\ ret[k].dailyPrices = << >> => ret[k].prices = << >>
    /\ args.roomTypeId = undefined =>
         [k \in 1..Len(ret) |-> ret[k].id] = [t \in 1..Len(roomTypes) |-> roomTypes[t].id]

\* A currency was asked for and a rate plan of that currency can be sold for
\* the room type, yet it does not cover the stay: no currency is left in the
\* matrix and prices is empty
C16_Witness ==
  /\ StrategyResult
  /\ args.currency # undefined
  /\ \E k \in 1..Len(ret) :
       /\ ret[k].prices = << >>
       /\ \E r \in 1..Len(ratePlans) : SoldFor(ratePlans[r], ret[k].id)

\* The matrix of computeDailyRatePlans as the loops over nights and rate
\* plans have built it, before the currencies that miss a night are deleted
BuiltMatrix ==
  NightLoop([dailyPrices |-> << >>, plans |-> ratePlans], 1, args.arrivalDate,
            [k \in 1..Len(ratePlans) |-> k], args.guests, StayNights,
            Val(defaultCurrency), engine).dailyPrices

\* The matrix m has an entry of rate plan r in the cell of night n of currency c
HasEntry(m, c, n, r) ==
  \E k \in 1..Len(m) :
    /\ m[k].currency = c
    /\ n <= Len(m[k].days)
    /\ \E e \in 1..Len(m[k].days[n]) :
         /\ m[k].days[n][e].ratePlan = r
         /\ m[k].days[n][e].date = NightDate(n)

\* C23: computeDailyRatePlans puts an entry for a rate plan into the cell of a
\* night, under the effective currency of the plan and under no other, exactly
\* when the plan has no availableForTravel or the date of the night lies within
\* it, ends included; the matrix returned keeps these entries for every
\* currency it keeps.
C23_EntryPerNightInWindow ==
  pc = "computeDailyRatePlans" =>
    \E built \in {BuiltMatrix} :
      \A r \in 1..Len(ratePlans) : \A n \in 1..StayNights : \A c \in {"CZK", "EUR"} :
        /\ HasEntry(built, c, n, r)
             <=> (c = EffectiveCurrency(ratePlans[r]) /\ InTravelWindow(ratePlans[r], n))
        /\ HasEntry(ret, c, n, r) <=> (HasEntry(built, c, n, r) /\ c \in Currencies(ret))

\* A rate plan that serves the last day of its travel window and not the
\* night after it, in a matrix whose other plans cover the rest
C23_Witness ==
  /\ pc = "computeDailyRatePlans"
  /\ \E r \in 1..Len(ratePlans) : \E n \in 1..(StayNights - 1) :
       /\ ratePlans[r].availableForTravel # undefined
       /\ NightDate(n) = Val(ratePlans[r].availableForTravel).to
       /\ HasEntry(ret, EffectiveCurrency(ratePlans[r]), n, r)
       /\ ~HasEntry(ret, EffectiveCurrency(ratePlans[r]), n + 1, r)
       /\ EffectiveCurrency(ratePlans[r]) \in Currencies(ret)

\* C28: every element of the prices of getBestPriceWithSingleRatePlan carries
\* a rate plan and a total; a currency whose nights no single rate plan covers
\* has no element.
C28_EveryPriceHasRatePlan ==
  pc = "getBestPriceWithSingleRatePlan" =>
    \A k \in 1..Len(ret) : \A j \in 1..Len(ret[k].prices) :
      /\ ret[k].prices[j].ratePlan # undefined
      /\ ret[k].prices[j].total # undefined

\* What another method of the same PriceComputer returns for the same
\* arguments, called after the method that has run
CalledNext(strategy) == DeterminePrices(This, args, strategy, engine).results

\* C29: for every room type and currency the total of getBestPrice is not
\* above the total of the rate plan getBestPriceWithSingleRatePlan reports,
\* when it reports one, nor above the total of any rate plan
\* getPossiblePricesWithSingleRatePlan lists.
C29_BestPriceIsLowest ==
  pc = "getBestPrice" =>
    \E single \in {CalledNext("getBestPriceWithSingleRatePlan")} :
    \E possible \in {CalledNext("getPossiblePricesWithSingleRatePlan")} :
      /\ Len(single) = Len(ret) /\ Len(possible) = Len(ret)
      /\ \A k \in 1..Len(ret) : \A j \in 1..Len(ret[k].prices) :
           /\ single[k].id = ret[k].id /\ possible[k].id = ret[k].id
           /\ \A i \in 1..Len(single[k].prices) :
                (/\ single[k].prices[i].currency = ret[k].prices[j].currency
                 /\ single[k].prices[i].ratePlan # undefined)
                  => ret[k].prices[j].total <= Val(single[k].prices[i].total)
           /\ \A i \in 1..Len(possible[k].prices) :
                possible[k].prices[i].currency = ret[k].prices[j].currency
                  => \A p \in 1..Len(possible[k].prices[i].ratePlans) :
                       ret[k].prices[j].total <= possible[k].prices[i].ratePlans[p].total

\* The nights taken from different rate plans cost less than the best single
\* rate plan, which getPossiblePricesWithSingleRatePlan lists too
C29_Witness ==
  /\ pc = "getBestPrice"
  /\ \E single \in {CalledNext("getBestPriceWithSingleRatePlan")} :
     \E possible \in {CalledNext("getPossiblePricesWithSingleRatePlan")} :
       \E k \in 1..Len(ret) : \E j \in 1..Len(ret[k].prices) :
         /\ \E i \in 1..Len(single[k].prices) :
              /\ single[k].prices[i].currency = ret[k].prices[j].currency
              /\ single[k].prices[i].ratePlan # undefined
              /\ ret[k].prices[j].total < Val(single[k].prices[i].total)
         /\ \E i \in 1..Len(possible[k].prices) :
              /\ possible[k].prices[i].currency = ret[k].prices[j].currency
              /\ \E p \in 1..Len(possible[k].prices[i].ratePlans) :
                   ret[k].prices[j].total < possible[k].prices[i].ratePlans[p].total

----------------------------------------------------------------------------
(* Direct calls of computeDailyPrice *)

AgeCondition(maxAge) == Conditions(undefined, undefined, undefined, undefined, Some(maxAge))

\* Modifiers of one rate plan that differ in what computeDailyPrice makes of
\* them
DailyPriceFixtures ==
  {Modifier(Some("percentage"), Some(AgeCondition(10)), -50),
   Modifier(Some("absolute"), Some(AgeCondition(16)), 2),
   Modifier(Some("percentage"), Some(NoConditions), -20),
   \* more than the price of the night
   Modifier(Some("absolute"), Some(NoConditions), -25),
   \* a change of nothing
   Modifier(Some("percentage"), Some(NoConditions), 0),
   \* for two guests or more
   Modifier(Some("absolute"),
            Some(Conditions(undefined, undefined, undefined, Some(2), undefined)), -3),
   \* dropped by selectApplicableModifiers
   Modifier(Some("absolute"), undefined, -30)}

DailyPriceGuests ==
  {<<[id |-> "g1", age |-> 30]>>,
   <<[id |-> "g1", age |-> 30], [id |-> "g2", age |-> 5]>>,
   <<[id |-> "g1", age |-> 16], [id |-> "g2", age |-> 30]>>}

InitDailyPrice ==
  /\ pc = "start"
  /\ engine \in Engines
  /\ roomTypes = << >>
  /\ \E mods \in SeqsUpTo(DailyPriceFixtures, MaxMods), price \in {10, 20} :
       ratePlans = WithIds(<<[OpenPlan EXCEPT !.price = price, !.modifiers = mods]>>)
  /\ defaultCurrency = undefined
  /\ modifiers = << >>
  /\ args \in [guests : DailyPriceGuests,
               lengthOfStay : {1},
               dateDayjs : {Midnight(Today)},
               currentCurrency : {"CZK"}]
  /\ ret = << >>

\* computeDailyPrice called with the one rate plan: its modifiers are left as
\* the calls of selectBestGuestModifier have written them.
ComputeDailyPrice ==
  /\ pc = "start"
  /\ pc' = "computeDailyPrice"
  /\ \E r \in {computeDailyPrice(args.guests, args.lengthOfStay, args.dateDayjs,
                                  ratePlans[1], args.currentCurrency, engine)} :
       /\ ret' = r.guestPrices
       /\ ratePlans' = [ratePlans EXCEPT ![1].modifiers = r.modifiers]
  /\ UNCHANGED <<engine, roomTypes, defaultCurrency, modifiers, args>>

SpecDailyPrice == InitDailyPrice /\ [][ComputeDailyPrice]_vars

----------------------------------------------------------------------------
(* Properties of computeDailyPrice *)

\* The modifiers of the rate plan as the caller wrote them
GivenModifiers ==
  [k \in 1..Len(ratePlans[1].modifiers) |->
     [ratePlans[1].modifiers[k] EXCEPT !.change = undefined]]

\* adjustment/100 * price for a percentage modifier, adjustment for an
\* absolute one, in hundredths
PlanChange(r) ==
  IF GivenModifiers[r].type = Some("percentage")
    THEN GivenModifiers[r].adjustment * ratePlans[1].price
    ELSE GivenModifiers[r].adjustment * 100

\* The modifier picked for guest g among those applicable to the night
PickedFor(g) ==
  selectBestGuestModifier(
    ratePlans[1].price, GivenModifiers,
    selectApplicableModifiers(GivenModifiers, args.dateDayjs, args.lengthOfStay,
                              Len(args.guests)),
    args.guests[g].age, engine).modifier

\* C12: computeDailyPrice returns one price line per guest in guest order,
\* each with resultingPrice = basePrice + the change of the modifier picked
\* for that guest and never stopped at zero; a line for which no modifier was
\* picked has resultingPrice = basePrice and no modifier field.
C12_OneLinePerGuest ==
  pc = "computeDailyPrice" =>
    /\ Len(ret) = Len(args.guests)
    /\ \A g \in 1..Len(ret) :
         /\ ret[g].guestId = args.guests[g].id
         /\ ret[g].basePrice = ratePlans[1].price * 100
         /\ PickedFor(g) = 0 =>
              ret[g].modifier = 0 /\ ret[g].resultingPrice = ret[g].basePrice
         /\ PickedFor(g) # 0 =>
              /\ ret[g].modifier \in {0, PickedFor(g)}
              /\ ret[g].modifier = 0 => PlanChange(PickedFor(g)) = 0
              /\ ret[g].resultingPrice = ret[g].basePrice + PlanChange(PickedFor(g))

\* Two guests, one whose modifier takes the price below zero and one priced
\* by another modifier
C12_Witness ==
  /\ pc = "computeDailyPrice"
  /\ Len(ret) = 2
  /\ \E g, h \in 1..2 :
       /\ ret[g].resultingPrice < 0
       /\ ret[h].modifier # 0
       /\ ret[h].modifier # ret[g].modifier

----------------------------------------------------------------------------
(* new PriceComputer(roomTypes, ratePlans, defaultCurrency) *)

\* The fields of an instance no constructor has written
NoInstance == [roomTypes |-> undefined, ratePlans |-> undefined, defaultCurrency |-> undefined]

\* A constructor that takes any default currency
PriceComputerConstructorAnyCurrency(a) ==
  IF ~TruthyObject(a.roomTypes)
    THEN [thrown |-> Some("PriceComputerError"), this |-> NoInstance]
  ELSE IF ~TruthyObject(a.ratePlans)
    THEN [thrown |-> Some("PriceComputerError"), this |-> NoInstance]
  ELSE [thrown |-> undefined,
        this |-> [roomTypes |-> a.roomTypes, ratePlans |-> a.ratePlans,
                  defaultCurrency |-> a.defaultCurrency]]

\* The constructor: what it throws, and the fields of `this` when it ends
PriceComputerConstructor(a) ==
  IF ~TruthyObject(a.roomTypes)
    THEN [thrown |-> Some("PriceComputerError"), this |-> NoInstance]
  ELSE IF ~TruthyObject(a.ratePlans)
    THEN [thrown |-> Some("PriceComputerError"), this |-> NoInstance]
  ELSE IF ~TruthyString(a.defaultCurrency)
    THEN [thrown |-> Some("PriceComputerError"), this |-> NoInstance]
  ELSE [thrown |-> undefined,
        this |-> [roomTypes |-> a.roomTypes, ratePlans |-> a.ratePlans,
                  defaultCurrency |-> a.defaultCurrency]]

\* Before the constructor runs.  In this specification roomTypes, ratePlans
\* and defaultCurrency hold the fields of `this` as JS values that may be
\* undefined, and ret what the constructor threw.
InitConstructor ==
  /\ pc = "start"
  /\ engine = "stable"
  /\ roomTypes = undefined
  /\ ratePlans = undefined
  /\ defaultCurrency = undefined
  /\ modifiers = << >>
  /\ args \in [roomTypes : {undefined, Some(<< >>), Some(<<[id |-> "rta"]>>),
                            Some(<<[id |-> "rta"], [id |-> "rtb"]>>)},
               ratePlans : {undefined}
                             \cup {Some(WithIds(plans)) :
                                     plans \in SeqsUpTo(PriceFixtures, MaxPlans)},
               defaultCurrency : {undefined, Some(""), Some("CZK"), Some("EUR")}]
  /\ ret = undefined

NewPriceComputer ==
  /\ pc = "start"
  /\ \E r \in {PriceComputerConstructor(args)} :
       /\ pc' = IF IsDefined(r.thrown) THEN "thrown" ELSE "constructor"
       /\ ret' = r.thrown
       /\ roomTypes' = r.this.roomTypes
       /\ ratePlans' = r.this.ratePlans
       /\ defaultCurrency' = r.this.defaultCurrency
  /\ UNCHANGED <<engine, modifiers, args>>

SpecConstructor == InitConstructor /\ [][NewPriceComputer]_vars

----------------------------------------------------------------------------
(* Properties of the constructor *)

MissingOrFalsy ==
  \/ args.roomTypes = undefined
  \/ args.ratePlans = undefined
  \/ args.defaultCurrency \in {undefined, Some("")}

\* C15: with roomTypes, ratePlans or defaultCurrency missing or falsy the
\* constructor throws PriceComputerError and no field of the instance is set;
\* with all three present it returns and the instance holds the three values
\* given.
C15_ConstructorChecks ==
  pc # "start" =>
    IF MissingOrFalsy
      THEN /\ pc = "thrown"
           /\ ret = Some("PriceComputerError")
           /\ roomTypes = undefined /\ ratePlans = undefined /\ defaultCurrency = undefined
      ELSE /\ pc = "constructor"
           /\ ret = undefined
           /\ roomTypes = args.roomTypes
           /\ ratePlans = args.ratePlans
           /\ defaultCurrency = args.defaultCurrency

\* The constructor threw for an empty default currency alone
C15_Witness ==
  /\ pc = "thrown"
  /\ args.roomTypes # undefined
  /\ args.ratePlans # undefined
  /\ args.defaultCurrency = Some("")


----------------------------------------------------------------------------
(* Availability (availability.js) *)

\* obj[key] of a JS object: undefined when the key is missing
Lookup(obj, key) == IF key \in DOMAIN obj THEN Some(obj[key]) ELSE undefined

AvailabilityRecord(quantity, restrictions) == [quantity |-> quantity, restrictions |-> restrictions]

AvailabilityRestrictions(noArrival, noDeparture) == [noArrival |-> noArrival, noDeparture |-> noDeparture]

Occupancy(min, max) == [min |-> min, max |-> max]

\* An occupancy test that forgets occupancy.min
OccupancyMismatchAboveMaxOnly(rt, numberOfGuests) ==
  /\ IsDefined(rt.occupancy)
  /\ Truthy(Val(rt.occupancy).max)
  /\ Val(Val(rt.occupancy).max) < numberOfGuests

\* rt.occupancy && ((min && min > numberOfGuests) || (max && max < numberOfGuests))
OccupancyMismatch(rt, numberOfGuests) ==
  /\ IsDefined(rt.occupancy)
  /\ \/ /\ Truthy(Val(rt.occupancy).min)
        /\ Val(Val(rt.occupancy).min) > numberOfGuests
     \/ /\ Truthy(Val(rt.occupancy).max)
        /\ Val(Val(rt.occupancy).max) < numberOfGuests

\* A noArrival test that looks at the second night instead of the first
IsRestrictedForArrivalOnSecondNight(j, currentAvailability) ==
  /\ j = 1
  /\ IsDefined(currentAvailability.restrictions)
  /\ Val(currentAvailability.restrictions).noArrival

\* j === 0 && currentAvailability.restrictions && restrictions.noArrival
IsRestrictedForArrival(j, currentAvailability) ==
  /\ j = 0
  /\ IsDefined(currentAvailability.restrictions)
  /\ Val(currentAvailability.restrictions).noArrival

\* currentAvailability && restrictions && restrictions.noDeparture
IsRestrictedForDeparture(currentAvailability) ==
  /\ IsDefined(currentAvailability)
  /\ IsDefined(Val(currentAvailability).restrictions)
  /\ Val(Val(currentAvailability).restrictions).noDeparture

\* The loop over the nights of the stay, from night j on: it stops with
\* restricted set when the arrival is restricted, and else ends with the
\* quantities of the nights that have a record and the date after the last
\* night.
RECURSIVE AvailabilityLoop(_, _, _, _, _)
AvailabilityLoop(days, dailyAvailability, currentDate, j, lengthOfStay) ==
  IF j >= lengthOfStay
  THEN [restricted |-> FALSE, dailyAvailability |-> dailyAvailability,
        currentDate |-> currentDate]
  ELSE Strict(Lookup(days, FormatDate(currentDate)), LAMBDA currentAvailability :
         IF IsDefined(currentAvailability)
            /\ IsRestrictedForArrival(j, Val(currentAvailability))
         THEN [restricted |-> TRUE, dailyAvailability |-> dailyAvailability,
               currentDate |-> currentDate]
         ELSE AvailabilityLoop(days,
                               IF IsDefined(currentAvailability)
                               THEN Append(dailyAvailability,
                                           Val(currentAvailability).quantity)
                               ELSE dailyAvailability,
                               AddDays(currentDate, 1), j + 1, lengthOfStay))

\* What is pushed for the day of departure when it has a record
DepartureQuantity == 1

\* A test of completeness that does not ask for the day of departure
AllNightsKnown(dailyAvailability, lengthOfStay) == Len(dailyAvailability) >= lengthOfStay

\* dailyAvailability.length === lengthOfStay + 1
AllDaysKnown(dailyAvailability, lengthOfStay) == Len(dailyAvailability) = lengthOfStay + 1

\* Math.min(da, agg)
MathMin(a, b) == IF a <= b THEN a ELSE b

\* dailyAvailability.reduce(..., undefined): the running minimum
RECURSIVE ReduceMin(_, _)
ReduceMin(agg, dailyAvailability) ==
  IF dailyAvailability = << >> THEN agg
  ELSE ReduceMin(IF agg = undefined THEN Some(Head(dailyAvailability))
                 ELSE Some(MathMin(Head(dailyAvailability), Val(agg))),
                 Tail(dailyAvailability))

Availability(roomTypeId, quantity) == [roomTypeId |-> roomTypeId, quantity |-> quantity]

\* The callback of roomTypes.map in computeAvailability
RoomTypeAvailability(rt, arrivalDateDayjs, lengthOfStay, numberOfGuests, indexedAvailability) ==
  IF Lookup(indexedAvailability, rt.id) = undefined
  THEN Availability(rt.id, undefined)
  ELSE IF OccupancyMismatch(rt, numberOfGuests)
  THEN Availability(rt.id, Some(0))
  ELSE Strict(AvailabilityLoop(indexedAvailability[rt.id], << >>, arrivalDateDayjs, 0,
                               lengthOfStay), LAMBDA nights :
    IF nights.restricted THEN Availability(rt.id, Some(0))
    ELSE Strict(Lookup(indexedAvailability[rt.id], FormatDate(nights.currentDate)),
                LAMBDA currentAvailability :
      IF IsRestrictedForDeparture(currentAvailability)
      THEN Availability(rt.id, Some(0))
      ELSE Strict(IF currentAvailability # undefined
                  THEN Append(nights.dailyAvailability, DepartureQuantity)
                  ELSE nights.dailyAvailability, LAMBDA dailyAvailability :
        IF AllDaysKnown(dailyAvailability, lengthOfStay)
        THEN Availability(rt.id, ReduceMin(undefined, dailyAvailability))
        ELSE Availability(rt.id, undefined))))

computeAvailability(arrivalDate, departureDate, numberOfGuests, rts, indexedAvailability) ==
  [k \in 1..Len(rts) |->
     RoomTypeAvailability(rts[k], arrivalDate, LengthOfStay(arrivalDate, departureDate),
                          numberOfGuests, indexedAvailability)]

----------------------------------------------------------------------------
(* Calls of computeAvailability *)

\* The days that can carry a record: the arrival and MaxStay days after it
AvailabilityDays == ArrivalDay..(ArrivalDay + MaxStay)

\* The records a day can carry
RecordFixtures ==
  {AvailabilityRecord(0, undefined),
   AvailabilityRecord(2, undefined),
   AvailabilityRecord(3, undefined),
   AvailabilityRecord(3, Some(AvailabilityRestrictions(TRUE, FALSE))),
   AvailabilityRecord(2, Some(AvailabilityRestrictions(FALSE, TRUE)))}

\* Room types: for two guests exactly, for any number of guests, and one for
\* up to two guests that the index does not know
AvailabilityRoomTypes ==
  <<[id |-> "rta", occupancy |-> Some(Occupancy(Some(2), Some(2)))],
    [id |-> "rtb", occupancy |-> undefined],
    [id |-> "rtc", occupancy |-> Some(Occupancy(undefined, Some(2)))]>>

\* rta and rtb are indexed with the same records, so that their results
\* differ by the occupancy alone; indexAvailability makes an entry for a room
\* type out of a record of it, so an indexed room type has a record
InitAvailability ==
  /\ pc = "start"
  /\ engine = "stable"
  /\ roomTypes = AvailabilityRoomTypes
  /\ ratePlans = << >>
  /\ defaultCurrency = undefined
  /\ modifiers = << >>
  /\ \E known \in (SUBSET AvailabilityDays) \ {{}} : \E days \in [known -> RecordFixtures] :
       args \in [arrivalDate : {Midnight(ArrivalDay)},
                 departureDate : {Midnight(ArrivalDay + n) : n \in 1..MaxStay},
                 numberOfGuests : 1..3,
                 indexedAvailability : {[id \in {"rta", "rtb"} |-> days]}]
  /\ ret = << >>

ComputeAvailability ==
  /\ pc = "start"
  /\ pc' = "computeAvailability"
  /\ \E r \in {computeAvailability(args.arrivalDate, args.departureDate, args.numberOfGuests,
                                   roomTypes, args.indexedAvailability)} : ret' = r
  /\ UNCHANGED <<engine, roomTypes, ratePlans, defaultCurrency, modifiers, args>>

SpecAvailability == InitAvailability /\ [][ComputeAvailability]_vars

----------------------------------------------------------------------------
(* Properties of computeAvailability *)

AvailabilityResult == pc = "computeAvailability"

\* The calendar days of the nights of the stay, and the day of departure
NightDays == DayOf(args.arrivalDate)..(DayOf(args.departureDate) - 1)

DepartureDay == DayOf(args.departureDate)

Indexed(k) == roomTypes[k].id \in DOMAIN args.indexedAvailability

RecordsOf(k) == args.indexedAvailability[roomTypes[k].id]

Known(k, d) == Indexed(k) /\ d \in DOMAIN RecordsOf(k)

\* The number of guests is within the occupancy bounds the room type states
FitsOccupancy(k) ==
  roomTypes[k].occupancy # undefined =>
    /\ Val(roomTypes[k].occupancy).min # undefined
         => Val(Val(roomTypes[k].occupancy).min) <= args.numberOfGuests
    /\ Val(roomTypes[k].occupancy).max # undefined
         => Val(Val(roomTypes[k].occupancy).max) >= args.numberOfGuests

NoArrivalOn(k, d) ==
  /\ Known(k, d)
  /\ RecordsOf(k)[d].restrictions # undefined
  /\ Val(RecordsOf(k)[d].restrictions).noArrival

NoDepartureOn(k, d) ==
  /\ Known(k, d)
  /\ RecordsOf(k)[d].restrictions # undefined
  /\ Val(RecordsOf(k)[d].restrictions).noDeparture

RestrictionHit(k) == NoArrivalOn(k, DayOf(args.arrivalDate)) \/ NoDepartureOn(k, DepartureDay)

\* The lowest quantity among the nights of the stay
LowestOfNights(k) ==
  CHOOSE q \in {RecordsOf(k)[d].quantity : d \in NightDays} :
    \A d \in NightDays : q <= RecordsOf(k)[d].quantity

\* Every night and the day of departure have a record, the guests fit and no
\* restriction is hit
Bookable(k) ==
  /\ Indexed(k)
  /\ \A d \in NightDays \cup {DepartureDay} : Known(k, d)
  /\ FitsOccupancy(k)
  /\ ~RestrictionHit(k)

\* C17: for a room type with a record on every night and on the day of
\* departure, fitting guests and no restriction hit, the quantity returned is
\* the lowest quantity of the nights of the stay.
C17_LowestOfNights ==
  AvailabilityResult =>
    \A k \in 1..Len(roomTypes) : Bookable(k) => ret[k].quantity = Some(LowestOfNights(k))

SomeDayUnknown(k) == \E d \in NightDays \cup {DepartureDay} : ~Known(k, d)

----------------------------------------------------------------------------
(* Cancellation fees (cancellation-fees.js) *)

\* An instant is modelled to the tick, which is a second at least: what
\* set('hour', 0).set('minute', 0).set('second', 0) leaves of the
\* milliseconds is below it.
StartOfDay(t) == Midnight(DayOf(t))

\* set('hour', 23).set('minute', 59).set('second', 59): the last tick of the day
EndOfDay(t) == Midnight(DayOf(t)) + (TicksPerDay - 1)

CancellationPolicy(from, to, deadline, amount) == [from |-> from, to |-> to, deadline |-> deadline, amount |-> amount]

\* The filter callback of normalizePolicyDates
PolicyFilter(cp, bookingDateDayjs, arrivalDayjs) ==
  IF IsDefined(cp.from) /\ Val(cp.from) > arrivalDayjs THEN FALSE
  ELSE IF IsDefined(cp.to) /\ Val(cp.to) < bookingDateDayjs THEN FALSE
  ELSE TRUE

\* .sort((a, b) => (a.isAfter(b) ? -1 : 1)): the latest first.  Two equal
\* instants are told apart in neither order, and are the same value.
RECURSIVE SortLatestFirst(_)
SortLatestFirst(options) ==
  IF options = << >> THEN << >>
  ELSE LET k == CHOOSE i \in 1..Len(options) : \A j \in 1..Len(options) : options[j] <= options[i]
       IN <<options[k]>> \o SortLatestFirst([j \in 1..(Len(options) - 1) |->
                                              IF j < k THEN options[j] ELSE options[j + 1]])

\* .find(x => x.isBefore(arrivalDayjs) || x.isSame(arrivalDayjs))
FindNotAfter(options, arrivalDayjs) ==
  IF \E i \in 1..Len(options) : options[i] <= arrivalDayjs
  THEN Some(options[CHOOSE i \in 1..Len(options) :
                      /\ options[i] <= arrivalDayjs
                      /\ \A j \in 1..(i - 1) : options[j] > arrivalDayjs])
  ELSE undefined

\* The map callback of normalizePolicyDates
NormalizePolicy(cp, bookingDateDayjs, arrivalDayjs) ==
  LET deadlineStartDayjs == AddDays(arrivalDayjs, -cp.deadline)
      fromOptions == IF IsDefined(cp.from)
                       THEN <<bookingDateDayjs, deadlineStartDayjs, Val(cp.from)>>
                       ELSE <<bookingDateDayjs, deadlineStartDayjs>>
  IN [from |-> FindNotAfter(SortLatestFirst(fromOptions), arrivalDayjs),
      to |-> IF IsDefined(cp.to) /\ Val(cp.to) < arrivalDayjs THEN Val(cp.to) ELSE arrivalDayjs,
      amount |-> cp.amount]

normalizePolicyDates(bookingDateDayjs, arrivalDayjs, cancellationPolicies) ==
  LET kept == SelectSeq(cancellationPolicies,
                        LAMBDA cp : PolicyFilter(cp, bookingDateDayjs, arrivalDayjs))
  IN [k \in 1..Len(kept) |-> NormalizePolicy(kept[k], bookingDateDayjs, arrivalDayjs)]

MathMax(a, b) == IF a >= b THEN a ELSE b

\* cancellationFees[key] = value on an object keyed by the formatted date
SetFee(cancellationFees, key, value) ==
  [d \in DOMAIN cancellationFees \cup {key} |->
     IF d = key THEN value ELSE cancellationFees[d]]

\* while (currentDate.isBefore(currentPolicy.to) || currentDate.isSame(currentPolicy.to))
RECURSIVE PolicyDays(_, _, _)
PolicyDays(cancellationFees, currentDate, currentPolicy) ==
  IF currentDate > currentPolicy.to THEN cancellationFees
  ELSE PolicyDays(
         IF FormatDate(currentDate) \in DOMAIN cancellationFees
         THEN [cancellationFees EXCEPT ![FormatDate(currentDate)].amount =
                 MathMax(@, currentPolicy.amount)]
         ELSE SetFee(cancellationFees, FormatDate(currentDate),
                     [dateDayjs |-> currentDate, amount |-> currentPolicy.amount]),
         AddDays(currentDate, 1), currentPolicy)

\* The loop over the normalized policies; every policy has a from, as the
\* start of the booking day is never after the end of the arrival day
RECURSIVE PolicyLoop(_, _)
PolicyLoop(cancellationFees, policies) ==
  IF policies = << >> THEN cancellationFees
  ELSE PolicyLoop(PolicyDays(cancellationFees, Val(Head(policies).from), Head(policies)),
                  Tail(policies))

\* while (!currentDate.isAfter(arrivalDayjs)): the default for the days
\* that have no fee
RECURSIVE DefaultDays(_, _, _, _)
DefaultDays(cancellationFees, currentDate, arrivalDayjs, defaultCancellationAmount) ==
  IF currentDate > arrivalDayjs THEN cancellationFees
  ELSE DefaultDays(
         IF FormatDate(currentDate) \notin DOMAIN cancellationFees
         THEN SetFee(cancellationFees, FormatDate(currentDate),
                     [dateDayjs |-> currentDate, amount |-> defaultCancellationAmount])
         ELSE cancellationFees,
         AddDays(currentDate, 1), arrivalDayjs, defaultCancellationAmount)

\* Object.values(cancellationFees).sort(...): the fees by dateDayjs; no two
\* are of the same day
RECURSIVE SortByDate(_)
SortByDate(cancellationFees) ==
  IF DOMAIN cancellationFees = {} THEN << >>
  ELSE LET first == CHOOSE d \in DOMAIN cancellationFees :
                      \A e \in DOMAIN cancellationFees :
                        cancellationFees[d].dateDayjs <= cancellationFees[e].dateDayjs
       IN <<cancellationFees[first]>>
            \o SortByDate([d \in DOMAIN cancellationFees \ {first} |-> cancellationFees[d]])

createFeeSchedule(bookingDateDayjs, arrivalDayjs, normalizedCancellationPolicies, defaultCancellationAmount) ==
  SortByDate(DefaultDays(PolicyLoop(<< >>, normalizedCancellationPolicies),
                         bookingDateDayjs, arrivalDayjs, defaultCancellationAmount))

Period(from, to, amount) == [from |-> from, to |-> to, amount |-> amount]

\* The loop of reduceFeeSchedule from element i on; currentPeriod has no `to`
\* yet
RECURSIVE ReduceLoop(_, _, _, _)
ReduceLoop(periods, currentPeriod, orderedSchedule, i) ==
  IF i > Len(orderedSchedule)
  THEN Append(periods,
              Period(currentPeriod.from,
                     FormatDate(orderedSchedule[Len(orderedSchedule)].dateDayjs),
                     currentPeriod.amount))
  ELSE IF orderedSchedule[i].amount # currentPeriod.amount
  THEN ReduceLoop(Append(periods,
                         Period(currentPeriod.from,
                                FormatDate(AddDays(orderedSchedule[i].dateDayjs, -1)),
                                currentPeriod.amount)),
                  [from |-> FormatDate(orderedSchedule[i].dateDayjs),
                   amount |-> orderedSchedule[i].amount],
                  orderedSchedule, i + 1)
  ELSE ReduceLoop(periods, currentPeriod, orderedSchedule, i + 1)

\* A reduceFeeSchedule that makes a period of every day
PeriodPerDay(orderedSchedule) ==
  [i \in 1..Len(orderedSchedule) |->
     Period(FormatDate(orderedSchedule[i].dateDayjs),
            FormatDate(orderedSchedule[i].dateDayjs), orderedSchedule[i].amount)]

reduceFeeSchedule(orderedSchedule) ==
  ReduceLoop(<< >>, [from |-> FormatDate(orderedSchedule[1].dateDayjs),
                     amount |-> orderedSchedule[1].amount],
             orderedSchedule, 1)

computeCancellationFees(bookingDate, arrivalDate, cancellationPolicies, defaultCancellationAmount) ==
  LET bookingDateDayjsSOD == StartOfDay(bookingDate)
      arrivalDayjsEOD == EndOfDay(arrivalDate)
  IN IF Len(cancellationPolicies) = 0
     THEN <<Period(FormatDate(bookingDateDayjsSOD), FormatDate(arrivalDayjsEOD),
                   defaultCancellationAmount)>>
     ELSE reduceFeeSchedule(
            createFeeSchedule(bookingDateDayjsSOD, arrivalDayjsEOD,
                              normalizePolicyDates(bookingDateDayjsSOD, arrivalDayjsEOD,
                                                   cancellationPolicies),
                              defaultCancellationAmount))

----------------------------------------------------------------------------
(* Calls of computeCancellationFees *)

\* The booking is made today; the arrival is today or up to MaxStay days on
LastArrivalDay == Today + MaxStay

\* deadline: days before the arrival
PolicyFixtures ==
  {CancellationPolicy(undefined, undefined, 1, 50),
   CancellationPolicy(undefined, undefined, 2, 20),
   CancellationPolicy(undefined, undefined, 0, 80),
   \* from before the booking on
   CancellationPolicy(undefined, undefined, 9, 20),
   \* until a day before the arrival
   CancellationPolicy(undefined, Some(Midnight(Today + 2)), 2, 50),
   CancellationPolicy(undefined, Some(Midnight(Today + 1)), 9, 50),
   \* from a day after the booking
   CancellationPolicy(Some(Midnight(Today + 2)), undefined, 1, 20),
   CancellationPolicy(Some(Midnight(Today + 1)), Some(Midnight(Today + 2)), 9, 80),
   \* after the arrival, before the booking
   CancellationPolicy(Some(Midnight(LastArrivalDay + 1)), undefined, 9, 80),
   CancellationPolicy(undefined, Some(Midnight(Today - 1)), 9, 80)}

InitCancellation ==
  /\ pc = "start"
  /\ engine = "stable"
  /\ roomTypes = << >>
  /\ ratePlans = << >>
  /\ defaultCurrency = undefined
  /\ modifiers = << >>
  /\ args \in [bookingDate : Midnight(Today)..(Midnight(Today + 1) - 1),
               arrivalDate : Midnight(Today)..(Midnight(LastArrivalDay + 1) - 1),
               cancellationPolicies : SeqsUpTo(PolicyFixtures, MaxPlans),
               defaultCancellationAmount : {20, 100}]
  /\ ret = << >>

ComputeCancellationFees ==
  /\ pc = "start"
  /\ pc' = "computeCancellationFees"
  /\ ret' = computeCancellationFees(args.bookingDate, args.arrivalDate,
                                    args.cancellationPolicies, args.defaultCancellationAmount)
  /\ UNCHANGED <<engine, roomTypes, ratePlans, defaultCurrency, modifiers, args>>

SpecCancellation == InitCancellation /\ [][ComputeCancellationFees]_vars

----------------------------------------------------------------------------
(* Properties of computeCancellationFees *)

FeesResult == pc = "computeCancellationFees"

BookingDay == DayOf(args.bookingDate)

ArrivalDayOfFees == DayOf(args.arrivalDate)

\* C21: the periods are in ascending order and cover every day from the
\* booking day to the arrival day once: the first starts on the booking day,
\* the last ends on the arrival day, each next one starts the day after the
\* one before ends; no two neighbours carry the same amount; without
\* policies the result is the one period of the default amount.
C21_PeriodsPartition ==
  FeesResult =>
    /\ Len(ret) >= 1
    /\ ret[1].from = BookingDay
    /\ ret[Len(ret)].to = ArrivalDayOfFees
    /\ \A k \in 1..Len(ret) : ret[k].from <= ret[k].to
    /\ \A k \in 1..(Len(ret) - 1) :
         /\ ret[k + 1].from = ret[k].to + 1
         /\ ret[k + 1].amount # ret[k].amount
    /\ args.cancellationPolicies = << >> =>
         ret = <<Period(BookingDay, ArrivalDayOfFees, args.defaultCancellationAmount)>>

\* Three periods or more, one of them of several days
C21_Witness ==
  /\ FeesResult
  /\ Len(ret) >= 3
  /\ \E k \in 1..Len(ret) : ret[k].from < ret[k].to

\* The days of the effective window of a policy
WindowDays(cp) ==
  {d \in BookingDay..ArrivalDayOfFees :
     /\ d >= ArrivalDayOfFees - cp.deadline
     /\ cp.from # undefined => d >= DayOf(Val(cp.from))
     /\ cp.to # undefined => d <= DayOf(Val(cp.to))}

PoliciesOn(d) ==
  {k \in 1..Len(args.cancellationPolicies) : d \in WindowDays(args.cancellationPolicies[k])}

\* The amount the schedule carries on day d
AmountOn(d) ==
  ret[CHOOSE k \in 1..Len(ret) : ret[k].from <= d /\ d <= ret[k].to].amount

\* C22: every day from the booking to the arrival carries the highest amount
\* of the policies whose effective window holds the day, and the default
\* amount when no window holds it.
C22_MaximumPerDay ==
  (FeesResult /\ C21_PeriodsPartition) =>
    \A d \in BookingDay..ArrivalDayOfFees :
      IF PoliciesOn(d) = {}
      THEN AmountOn(d) = args.defaultCancellationAmount
      ELSE /\ \E k \in PoliciesOn(d) : AmountOn(d) = args.cancellationPolicies[k].amount
           /\ \A k \in PoliciesOn(d) : AmountOn(d) >= args.cancellationPolicies[k].amount

====
